---- MODULE Spec2Model ----
(***************************************************************************)
(* SubQG Image Transformer: the field simulator (SubQGSimulator), the      *)
(* Riemann projection statistics, the knot-map resampler and the pixel     *)
(* transformer, as state machines.                                         *)
(*                                                                         *)
(* Numbers.  A JavaScript double is modelled as a fixed-point integer in   *)
(* units of 1/SCALE; every multiplication and division rounds to the       *)
(* nearest unit, halves away from zero.  NaN is a value of its own that    *)
(* every arithmetic operator propagates and every comparison rejects.      *)
(* Angles are integers in units of 1/TURN of a full turn (half degrees).   *)
(***************************************************************************)
EXTENDS Integers, Sequences, FiniteSets, TLC

VARIABLES
    \* ---- SubQGSimulator instance (src/unnamed/part_000)
    params,                      \* this.params
    energy_field,                \* this.energy_field
    phase_field,                 \* this.phase_field
    knot_map,                    \* this.knot_map
    detected_knot_base_values,   \* this.detected_knot_base_values
    simPc,                       \* where the caller of the simulator stands
    t,                           \* loop variable of runSimulation
    total_knots_detected,        \* local of runSimulation
    runResult,                   \* value returned by the last runSimulation
    riemannStats,                \* value returned by the last analyzeRiemannProjection
    runs,                        \* number of runSimulation calls started
    arrays,                      \* the knot-map arrays allocated so far, by identity
    knotMapRef,                  \* the identity of the array this.knot_map refers to
    returned,                    \* the knot maps runSimulation returned: the identity of
                                 \* the array and what it held when it was returned
    \* ---- analyzeRiemannProjection applied to a given event log
    eventLog,                    \* detected_knot_base_values the function reads
    scalingC,                    \* params.re_s_scaling_c the function reads
    statsOut,                    \* the RiemannStats it returned
    \* ---- one call of resizeKnotMap (src/services/mathHelpers.ts)
    knotMap,                     \* argument knotMap
    targetWidth,                 \* argument targetWidth
    targetHeight,                \* argument targetHeight
    resizePc,                    \* "call", "returned" or "Error"
    resizedKnotMap,              \* the matrix returned
    \* ---- one call of processImageWithSubQG (src/services/mathHelpers.ts)
    variant,                     \* which definition is linked: "first" (l. 253) or "second" (l. 599)
    buffers,                     \* the heap of pixel buffers: buffer id -> bytes
    originalImageData,           \* argument: width, height, id of the buffer behind .data
    dataBefore,                  \* originalImageData.data when the call was made
    categoryActivations,         \* argument
    brightnessFactor,            \* argument
    contrastFactor,              \* argument
    harmonyScore,                \* argument
    globalPhaseOffsetX,          \* local, Math.random() * Math.PI * 2
    globalPhaseOffsetY,          \* local, Math.random() * Math.PI * 2
    newImageData,                \* the ImageData returned
    imgPc,                       \* "call" or "returned"
    \* ---- one call of another function of src/services/mathHelpers.ts
    callee,                      \* the function called
    args,                        \* its arguments
    result,                      \* what it returned, or the image its promise resolved with
    callPc,                      \* "call", "returned", "resolved", "rejected" or "Error"
    contexts,                    \* what the getContext('2d') calls it made returned: TRUE
                                 \* for a context, FALSE for null
    \* ---- the App component (src/App.tsx, src/components/SliderControl.tsx:38-411)
    component,                   \* which copy is built: "first" (App.tsx) or "second"
    helpers,                     \* which definitions of the image helpers it imports
    geminiService,               \* which copy of generateImageWithGemini it imports
    apiKey,                      \* whether process.env.API_KEY is set
    geminiPrompt,                \* useState: the prompt typed
    inputImageSrc,               \* useState: null or the image source
    inputImageDimensions,        \* useState: null or width and height
    transformedImageSrc,         \* useState: null or the data URL, with the run it is of
    simulationStats,             \* useState: simulationStats ("first"), riemannStatsDisplay
                                 \* and knotMapVisualSrc ("second"), with the run they are of
    processingTime,              \* useState
    isLoading,                   \* useState
    errorMsg,                    \* useState
    resolution,                  \* useState: the label of the selected option
    handler,                     \* the handler in progress or last finished: its name, the
                                 \* await it stands at, its locals, the calls it has made
    transforms,                  \* number of handleTransform calls that passed the guard
    \* ---- host environment
    rngState,                    \* state of the generator behind Math.random
    sinResidue                   \* |Math.sin| at a non-zero multiple of pi, in units

simVars == <<params, energy_field, phase_field, knot_map, detected_knot_base_values,
             simPc, t, total_knots_detected, runResult, riemannStats, runs,
             arrays, knotMapRef, returned>>
hostVars == <<rngState, sinResidue>>
statVars == <<eventLog, scalingC, statsOut>>
resizeVars == <<knotMap, targetWidth, targetHeight, resizePc, resizedKnotMap>>
imgVars == <<variant, buffers, originalImageData, dataBefore, categoryActivations,
             brightnessFactor, contrastFactor, harmonyScore, globalPhaseOffsetX,
             globalPhaseOffsetY, newImageData, imgPc>>
callVars == <<callee, args, result, callPc, contexts>>
appVars == <<component, helpers, geminiService, apiKey, geminiPrompt, inputImageSrc,
             inputImageDimensions, transformedImageSrc, simulationStats, processingTime,
             isLoading, errorMsg, resolution, handler, transforms>>
nonSimVars == <<statVars, resizeVars, imgVars, callVars, appVars>>
vars == <<simVars, hostVars, nonSimVars>>

-----------------------------------------------------------------------------
(* Bounds of the model *)

MaxField == 2       \* field_w, field_h range over -1 .. MaxField
MaxDuration == 2    \* sim_duration ranges over -1 .. MaxDuration
MaxRuns == 2        \* runSimulation calls per simulator instance
MaxLog == 3         \* length of an event log handed to the statistics
MaxMapCells == 4    \* cells of a knot map handed to resizeKnotMap
MaxKnot == 2        \* largest entry of such a knot map
MaxTarget == 2      \* targetWidth, targetHeight range over 1 .. MaxTarget
MaxImgW == 2        \* width of an image handed to processImageWithSubQG
MaxImgH == 1        \* height of such an image
MaxCanvas == 2      \* widths and heights handed to the canvas operations
MaxPixels == 3      \* pixels of an image handed to extractMainColors
MaxColors == 3      \* numColors ranges over 0 .. MaxColors

-----------------------------------------------------------------------------
(* Fixed-point arithmetic standing for IEEE doubles *)

SCALE == 100 * 100
TURN == 2 * 360
NaN == 0 - (SCALE * SCALE)

IsNaN(x) == x = NaN

Abs(x) == IF x = NaN THEN NaN ELSE IF x < 0 THEN -x ELSE x

\* n / d for d > 0, rounded to the nearest integer, halves away from zero
RDiv(n, d) ==
    IF n >= 0 THEN (n + (d \div 2)) \div d
    ELSE -(((-n) + (d \div 2)) \div d)

Add(a, b) == IF a = NaN \/ b = NaN THEN NaN ELSE a + b
Sub(a, b) == IF a = NaN \/ b = NaN THEN NaN ELSE a - b
Mul(a, b) == IF a = NaN \/ b = NaN THEN NaN ELSE RDiv(a * b, SCALE)
Half(a) == IF a = NaN THEN NaN ELSE RDiv(a, 2)
\* a > b as JavaScript evaluates it: false when either side is NaN
Gt(a, b) == a # NaN /\ b # NaN /\ a > b

\* Math.max / Math.min: NaN if either argument is NaN
MathMax(a, b) == IF a = NaN \/ b = NaN THEN NaN ELSE IF a > b THEN a ELSE b
MathMin(a, b) == IF a = NaN \/ b = NaN THEN NaN ELSE IF a < b THEN a ELSE b

clamp(value, min, max) == MathMin(MathMax(value, min), max)

\* Math.round(x * 10^p) / 10^p, in units; p is decimal_precision
RoundTo(x, p) ==
    IF x = NaN THEN NaN
    ELSE IF 10 ^ p >= SCALE THEN x
    ELSE LET q == SCALE \div (10 ^ p)
         IN  ((2 * x + q) \div (2 * q)) * q

\* Bhaskara's rational approximation of sin on (0, TURN/2), in units
SinHalfTurn(m) ==
    LET p == m * ((TURN \div 2) - m)
    IN  RDiv(4 * SCALE * p, 162000 - p)

\* Math.sin of an angle given in 1/TURN turns.  sin(0) is exactly 0; at a
\* non-zero multiple of pi the double nearest to the angle is not a multiple
\* of pi, and Math.sin returns the host's residue (0 on an ideal host).
Sin(a) ==
    IF a = NaN THEN NaN
    ELSE IF a = 0 THEN 0
    ELSE LET m == a % TURN
         IN  IF m = 0 THEN -sinResidue
             ELSE IF m = TURN \div 2 THEN sinResidue
             ELSE IF m < TURN \div 2 THEN SinHalfTurn(m)
             ELSE -SinHalfTurn(m - (TURN \div 2))

Cos(a) == IF a = NaN THEN NaN ELSE IF a = 0 THEN SCALE ELSE Sin(a + (TURN \div 4))

\* linspace(start, stop, num) over angles: step = (stop - start) / (num - 1),
\* which is Infinity for num = 1, and start + Infinity * 0 is NaN.
linspace(start, stop, num) ==
    IF num <= 0 THEN << >>
    ELSE IF num = 1 THEN << NaN >>
    ELSE [i \in 1..num |-> start + RDiv((stop - start) * (i - 1), num - 1)]

-----------------------------------------------------------------------------
(* Math.random: a seeded generator whose seed the program does not control *)

RngPeriod == 2 * 2
RngNext(s) == (5 * s + 3) % RngPeriod
RECURSIVE RngSkip(_, _)
RngSkip(s, k) == IF k = 0 THEN s ELSE RngSkip(RngNext(s), k - 1)
\* the value in [0, 1) drawn in generator state s
MathRandom(s) == (s * SCALE) \div RngPeriod

-----------------------------------------------------------------------------
(* Statistics helpers (src/services/mathHelpers.ts) *)

\* Math.pow(d, 2) for d >= 0 in units, in hundredths of a unit, split so that
\* no intermediate product overflows
SquareWide(d) ==
    LET a == d \div 100
        b == d % 100
    IN  100 * a * a + 2 * a * b + RDiv(b * b, 100)

\* a / b in units, b > 0
FDiv(a, b) ==
    IF a = NaN \/ b = NaN THEN NaN
    ELSE IF b % 100 = 0 THEN RDiv(a * 100, b \div 100)
    ELSE RDiv(a * SCALE, b)

RECURSIVE ISqrtBetween(_, _, _)
ISqrtBetween(n, lo, hi) ==
    IF lo >= hi THEN lo
    ELSE LET mid == (lo + hi + 1) \div 2
         IN  IF mid * mid <= n THEN ISqrtBetween(n, mid, hi)
             ELSE ISqrtBetween(n, lo, mid - 1)

\* Math.sqrt of a value given in hundredths of a unit, in units, rounded down
MathSqrt(v) == ISqrtBetween(v * 100, 0, 40000)

RECURSIVE SumSeq(_)
SumSeq(arr) == IF arr = << >> THEN 0 ELSE Head(arr) + SumSeq(Tail(arr))

SeqMax(arr) == CHOOSE x \in {arr[i] : i \in 1..Len(arr)} : \A i \in 1..Len(arr) : arr[i] <= x
SeqMin(arr) == CHOOSE x \in {arr[i] : i \in 1..Len(arr)} : \A i \in 1..Len(arr) : arr[i] >= x

calculateMean(arr) == IF Len(arr) = 0 THEN 0 ELSE RDiv(SumSeq(arr), Len(arr))

calculateMedian(arr) ==
    IF Len(arr) = 0 THEN 0
    ELSE LET sortedArr == SortSeq(arr, LAMBDA a, b : a < b)
             mid == Len(arr) \div 2
         IN  IF Len(arr) % 2 # 0 THEN sortedArr[mid + 1]
             ELSE RDiv(sortedArr[mid] + sortedArr[mid + 1], 2)

calculateStdDev(arr) ==
    IF Len(arr) <= 1 THEN 0
    ELSE LET mean == calculateMean(arr)
             squares == [i \in 1..Len(arr) |-> SquareWide(Abs(arr[i] - mean))]
         IN  MathSqrt(RDiv(SumSeq(squares), Len(arr)))

calculatePtp(arr) == IF Len(arr) = 0 THEN 0 ELSE SeqMax(arr) - SeqMin(arr)

-----------------------------------------------------------------------------
(* SubQGSimulator *)

\* Array(n): a RangeError for a negative length
ArrayLengthOk(n) == n >= 0

\* Array(h).fill(null).map(() => Array(w).fill(0)); the callback, and with it
\* Array(w), runs only when h > 0
GridAllocOk(h, w) == ArrayLengthOk(h) /\ (h > 0 => ArrayLengthOk(w))
ZeroGrid(h, w) == [r \in 1..h |-> [c \in 1..w |-> 0]]

\* Math.sin(omega * t / sim_duration), omega = f * 2 * Math.PI
TimeComponent(f, step, duration) == Sin(RDiv(f * TURN * step, SCALE * duration))

\* the value updateWaves stores for one field in one cell
WaveValue(time_component, spatial_component, random, noise_factor) ==
    clamp(Add(Half(Abs(Add(time_component, spatial_component))),
              Mul(random, noise_factor)),
          0, SCALE + noise_factor)

\* updateWaves(t): both fields, from generator state s; cell (r, c) takes the
\* draws number 2 * ((r-1) * field_w + (c-1)) and the next one
SpatialComponent(p, r, c) ==
    LET xCoords == linspace(0, TURN, p.field_w)
        yCoords == linspace(0, TURN, p.field_h)
    IN  Mul(Sin(xCoords[c]), Cos(yCoords[r]))

DrawIndex(p, r, c) == 2 * ((r - 1) * p.field_w + (c - 1))

updateWavesEnergy(p, step, s) ==
    [r \in 1..p.field_h |-> [c \in 1..p.field_w |->
        WaveValue(TimeComponent(p.f_energy, step, p.sim_duration),
                  SpatialComponent(p, r, c),
                  MathRandom(RngSkip(s, DrawIndex(p, r, c) % RngPeriod)),
                  p.noise_factor)]]

updateWavesPhase(p, step, s) ==
    [r \in 1..p.field_h |-> [c \in 1..p.field_w |->
        WaveValue(TimeComponent(p.f_phase, step, p.sim_duration),
                  SpatialComponent(p, r, c),
                  MathRandom(RngSkip(s, (DrawIndex(p, r, c) + 1) % RngPeriod)),
                  p.noise_factor)]]

\* DetectedKnot with the thresholds compared by >= instead of >
DetectedKnotInclusive(p, e, ph) ==
    /\ e # NaN /\ ph # NaN
    /\ e >= p.threshold_s
    /\ ph >= p.threshold_s
    /\ RoundTo(e, p.decimal_precision) = RoundTo(ph, p.decimal_precision)

\* DetectedKnot comparing energy and phase without rounding them
DetectedKnotUnrounded(p, e, ph) ==
    /\ Gt(e, p.threshold_s)
    /\ Gt(ph, p.threshold_s)
    /\ e = ph

\* detected_knot_this_step for a cell holding energy e and phase ph
DetectedKnot(p, e, ph) ==
    /\ Gt(e, p.threshold_s)
    /\ Gt(ph, p.threshold_s)
    /\ RoundTo(e, p.decimal_precision) # NaN
    /\ RoundTo(e, p.decimal_precision) = RoundTo(ph, p.decimal_precision)

\* KnotValues pushing the energy of every cell
RECURSIVE KnotValuesEveryCell(_, _, _, _)
KnotValuesEveryCell(p, ef, pf, idx) ==
    IF idx >= p.field_h * p.field_w THEN << >>
    ELSE << ef[(idx \div p.field_w) + 1][(idx % p.field_w) + 1] >>
         \o KnotValuesEveryCell(p, ef, pf, idx + 1)

\* the energies pushed to detected_knot_base_values in one step, row-major
RECURSIVE KnotValues(_, _, _, _)
KnotValues(p, ef, pf, idx) ==
    IF idx >= p.field_h * p.field_w THEN << >>
    ELSE LET r == (idx \div p.field_w) + 1
             c == (idx % p.field_w) + 1
             rest == KnotValues(p, ef, pf, idx + 1)
         IN  IF DetectedKnot(p, ef[r][c], pf[r][c]) THEN << ef[r][c] >> \o rest ELSE rest

Cells(p) == IF p.field_h > 0 /\ p.field_w > 0 THEN p.field_h * p.field_w ELSE 0

-----------------------------------------------------------------------------
(* Configurations handed to the constructor *)

\* the scenario of the testable properties: W = H = 4, T = 1, no noise,
\* threshold 0, precision 3
ScenarioParams ==
    [sim_duration |-> 1, noise_factor |-> 0, threshold_s |-> 0, decimal_precision |-> 3,
     f_energy |-> 1500, f_phase |-> 1550, re_s_scaling_c |-> 1000,
     field_w |-> 4, field_h |-> 4]

ParamSpace ==
    [sim_duration : -1..MaxDuration, noise_factor : {0, 400}, threshold_s : {0, 2000},
     decimal_precision : {1, 3}, f_energy : {1500}, f_phase : {1550},
     re_s_scaling_c : {1000}, field_w : -1..MaxField, field_h : -1..MaxField]
    \cup {ScenarioParams}

NoStats == [total_projected_knots |-> -1]
NoResult == [total_knots |-> -1]

IdleStats ==
    /\ eventLog = << >>
    /\ scalingC = 0
    /\ statsOut = NoStats

NoImage == [width |-> 0, height |-> 0, buffer |-> 0]

IdleImg ==
    /\ variant = "first"
    /\ buffers = << >>
    /\ originalImageData = NoImage
    /\ dataBefore = << >>
    /\ categoryActivations = << >>
    /\ brightnessFactor = 0
    /\ contrastFactor = SCALE
    /\ harmonyScore = 0
    /\ globalPhaseOffsetX = 0
    /\ globalPhaseOffsetY = 0
    /\ newImageData = NoImage
    /\ imgPc = "idle"

NoValue == [none |-> TRUE]

IdleCall ==
    /\ callee = "none"
    /\ args = NoValue
    /\ result = NoValue
    /\ callPc = "idle"
    /\ contexts = << >>

\* JavaScript's null
null == [null |-> TRUE]

NoHandler == [name |-> "none", pc |-> "done"]

IdleApp ==
    /\ component = "first"
    /\ helpers = "first"
    /\ geminiService = "geminiService.ts"
    /\ apiKey = FALSE
    /\ geminiPrompt = ""
    /\ inputImageSrc = null
    /\ inputImageDimensions = null
    /\ transformedImageSrc = null
    /\ simulationStats = null
    /\ processingTime = ""
    /\ isLoading = FALSE
    /\ errorMsg = ""
    /\ resolution = ""
    /\ handler = NoHandler
    /\ transforms = 0

IdleResize ==
    /\ knotMap = << >>
    /\ targetWidth = 0
    /\ targetHeight = 0
    /\ resizePc = "idle"
    /\ resizedKnotMap = << >>

InitSim ==
    /\ IdleStats
    /\ IdleResize
    /\ IdleImg
    /\ IdleApp
    /\ IdleCall
    /\ params \in ParamSpace
    /\ energy_field = << >>
    /\ phase_field = << >>
    /\ knot_map = << >>
    /\ detected_knot_base_values = << >>
    /\ simPc = "new"
    /\ t = 0
    /\ total_knots_detected = 0
    /\ runResult = NoResult
    /\ riemannStats = NoStats
    /\ runs = 0
    /\ arrays = << >>
    /\ knotMapRef = 0
    /\ returned = << >>
    /\ rngState \in 0..(RngPeriod - 1)
    /\ sinResidue \in {0, 1}

\* new SubQGSimulator(params)
Construct ==
    /\ simPc = "new"
    /\ IF GridAllocOk(params.field_h, params.field_w)
       THEN /\ energy_field' = ZeroGrid(params.field_h, params.field_w)
            /\ phase_field' = ZeroGrid(params.field_h, params.field_w)
            /\ knot_map' = ZeroGrid(params.field_h, params.field_w)
            /\ arrays' = Append(arrays, ZeroGrid(params.field_h, params.field_w))
            /\ knotMapRef' = Len(arrays) + 1
            /\ detected_knot_base_values' = << >>
            /\ simPc' = "ready"
       ELSE /\ simPc' = "RangeError"
            /\ UNCHANGED <<energy_field, phase_field, knot_map, detected_knot_base_values,
                           arrays, knotMapRef>>
    /\ UNCHANGED <<params, t, total_knots_detected, runResult, riemannStats, runs, returned,
                   hostVars, nonSimVars>>

\* RunBegin without the reset of knot_map
RunBeginNoReset ==
    /\ simPc \in {"ready", "done"}
    /\ runs < MaxRuns
    /\ detected_knot_base_values' = << >>
    /\ total_knots_detected' = 0
    /\ t' = 0
    /\ runs' = runs + 1
    /\ simPc' = "running"
    /\ UNCHANGED <<params, energy_field, phase_field, knot_map, runResult, riemannStats,
                   arrays, knotMapRef, returned, hostVars, nonSimVars>>

\* RunBegin zeroing the array this.knot_map refers to instead of replacing it
RunBeginInPlace ==
    /\ simPc \in {"ready", "done"}
    /\ runs < MaxRuns
    /\ knot_map' = ZeroGrid(params.field_h, params.field_w)
    /\ arrays' = [arrays EXCEPT ![knotMapRef] = ZeroGrid(params.field_h, params.field_w)]
    /\ detected_knot_base_values' = << >>
    /\ total_knots_detected' = 0
    /\ t' = 0
    /\ runs' = runs + 1
    /\ simPc' = "running"
    /\ UNCHANGED <<params, energy_field, phase_field, runResult, riemannStats,
                   knotMapRef, returned, hostVars, nonSimVars>>

\* runSimulation, up to the head of its loop over t: this.knot_map is
\* assigned a newly allocated grid
RunBegin ==
    /\ simPc \in {"ready", "done"}
    /\ runs < MaxRuns
    /\ knot_map' = ZeroGrid(params.field_h, params.field_w)
    /\ arrays' = Append(arrays, ZeroGrid(params.field_h, params.field_w))
    /\ knotMapRef' = Len(arrays) + 1
    /\ detected_knot_base_values' = << >>
    /\ total_knots_detected' = 0
    /\ t' = 0
    /\ runs' = runs + 1
    /\ simPc' = "running"
    /\ UNCHANGED <<params, energy_field, phase_field, runResult, riemannStats, returned,
                   hostVars, nonSimVars>>

\* one iteration of the loop over t: updateWaves(t), then the detection pass
RunStep ==
    /\ simPc = "running"
    /\ t < params.sim_duration
    /\ LET ef == updateWavesEnergy(params, t, rngState)
           pf == updateWavesPhase(params, t, rngState)
           found == KnotValues(params, ef, pf, 0)
       IN  /\ energy_field' = ef
           /\ phase_field' = pf
           /\ knot_map' = [r \in 1..params.field_h |-> [c \in 1..params.field_w |->
                  IF DetectedKnot(params, ef[r][c], pf[r][c])
                  THEN knot_map[r][c] + 1 ELSE knot_map[r][c]]]
           /\ arrays' = [arrays EXCEPT ![knotMapRef] =
                  [r \in 1..params.field_h |-> [c \in 1..params.field_w |->
                      IF DetectedKnot(params, ef[r][c], pf[r][c])
                      THEN @[r][c] + 1 ELSE @[r][c]]]]
           /\ detected_knot_base_values' = detected_knot_base_values \o found
           /\ total_knots_detected' = total_knots_detected + Len(found)
    /\ rngState' = RngSkip(rngState, (2 * Cells(params)) % RngPeriod)
    /\ t' = t + 1
    /\ UNCHANGED <<params, simPc, runResult, riemannStats, runs, knotMapRef, returned,
                   sinResidue, nonSimVars>>

\* the loop ends and runSimulation returns
RunReturn ==
    /\ simPc = "running"
    /\ ~(t < params.sim_duration)
    /\ runResult' = [knot_map |-> knot_map, total_knots |-> total_knots_detected]
    /\ returned' = Append(returned, [ref |-> knotMapRef, knot_map |-> arrays[knotMapRef]])
    /\ simPc' = "done"
    /\ UNCHANGED <<params, energy_field, phase_field, knot_map, detected_knot_base_values,
                   t, total_knots_detected, riemannStats, runs, arrays, knotMapRef,
                   hostVars, nonSimVars>>

-----------------------------------------------------------------------------
(* analyzeRiemannProjection *)

\* val => (val * internal_prescale_factor) * re_s_scaling_c
ProjectedValues(log, c) == [i \in 1..Len(log) |-> Mul(log[i] * 5, c)]

\* StdDevReS without the test of the range
StdDevReSLengthOnly(projected) ==
    IF Len(projected) > 1 THEN calculateStdDev(projected) ELSE SCALE

StdDevReS(projected) ==
    IF Len(projected) > 1 /\ calculatePtp(projected) > 0
    THEN calculateStdDev(projected) ELSE SCALE

CountNearTarget(projected) ==
    Cardinality({i \in 1..Len(projected) : projected[i] >= 4500 /\ projected[i] <= 5500})

\* HarmonyScore without the Math.min caps and the final clamp
HarmonyScoreUnguarded(mean_re_s, std_dev_re_s) ==
    LET mean_proximity_score == SCALE - FDiv(Abs(mean_re_s - 5000), 2500)
        concentration_score == SCALE - FDiv(std_dev_re_s, 1500)
    IN  Mul(mean_proximity_score, 6000) + Mul(concentration_score, 4000)

HarmonyScore(mean_re_s, std_dev_re_s) ==
    LET mean_proximity_score == SCALE - MathMin(SCALE, FDiv(Abs(mean_re_s - 5000), 2500))
        concentration_score == SCALE - MathMin(SCALE, FDiv(std_dev_re_s, 1500))
    IN  clamp(Mul(mean_proximity_score, 6000) + Mul(concentration_score, 4000), 0, SCALE)

\* analyzeRiemannProjection without the early return for an empty log
analyzeNoEarlyReturn(log, c) ==
    LET projected == ProjectedValues(log, c)
    IN  [mean_re_s |-> calculateMean(projected),
         median_re_s |-> calculateMedian(projected),
         std_dev_re_s |-> StdDevReS(projected),
         count_near_0_5 |-> CountNearTarget(projected),
         total_projected_knots |-> Len(projected),
         harmony_score |-> HarmonyScore(calculateMean(projected), StdDevReS(projected)),
         internal_prescale_factor_used |-> 5 * SCALE]

analyzeRiemannProjection(log, c) ==
    IF Len(log) = 0
    THEN [mean_re_s |-> 0, median_re_s |-> 0, std_dev_re_s |-> SCALE,
          count_near_0_5 |-> 0, total_projected_knots |-> 0, harmony_score |-> 0,
          internal_prescale_factor_used |-> 0]
    ELSE LET projected == ProjectedValues(log, c)
         IN  [mean_re_s |-> calculateMean(projected),
              median_re_s |-> calculateMedian(projected),
              std_dev_re_s |-> StdDevReS(projected),
              count_near_0_5 |-> CountNearTarget(projected),
              total_projected_knots |-> Len(projected),
              harmony_score |-> HarmonyScore(calculateMean(projected), StdDevReS(projected)),
              internal_prescale_factor_used |-> 5 * SCALE]

\* analyzeRiemannProjection emptying the event log it has read
AnalyzeConsuming ==
    /\ simPc \in {"ready", "done"}
    /\ riemannStats' = analyzeRiemannProjection(detected_knot_base_values, params.re_s_scaling_c)
    /\ detected_knot_base_values' = << >>
    /\ UNCHANGED <<params, energy_field, phase_field, knot_map,
                   simPc, t, total_knots_detected, runResult, runs, arrays, knotMapRef,
                   returned, hostVars, nonSimVars>>

\* simulator.analyzeRiemannProjection(), called on a constructed simulator
\* that is not inside runSimulation
Analyze ==
    /\ simPc \in {"ready", "done"}
    /\ riemannStats' = analyzeRiemannProjection(detected_knot_base_values, params.re_s_scaling_c)
    /\ UNCHANGED <<params, energy_field, phase_field, knot_map, detected_knot_base_values,
                   simPc, t, total_knots_detected, runResult, runs, arrays, knotMapRef,
                   returned, hostVars, nonSimVars>>

NextSim == Construct \/ RunBegin \/ RunStep \/ RunReturn \/ Analyze

Spec == InitSim /\ [][NextSim]_vars

-----------------------------------------------------------------------------
(* analyzeRiemannProjection as a function of the event log *)

\* energies a knot can log: above the threshold, at most 1 + noise_factor
LoggedEnergies == {1000, 5000, 9000, SCALE, SCALE + 400}
ScalingConstants == {1000, 2500, SCALE}

RECURSIVE SeqsUpTo(_, _)
SeqsUpTo(S, n) ==
    IF n = 0 THEN {<< >>}
    ELSE LET shorter == SeqsUpTo(S, n - 1)
         IN  shorter \cup {Append(q, x) : q \in shorter, x \in S}

IdleSim ==
    /\ params = ScenarioParams
    /\ energy_field = << >>
    /\ phase_field = << >>
    /\ knot_map = << >>
    /\ detected_knot_base_values = << >>
    /\ simPc = "idle"
    /\ t = 0
    /\ total_knots_detected = 0
    /\ runResult = NoResult
    /\ riemannStats = NoStats
    /\ runs = 0
    /\ arrays = << >>
    /\ knotMapRef = 0
    /\ returned = << >>

IdleHost ==
    /\ rngState = 0
    /\ sinResidue = 0

InitStats ==
    /\ IdleSim
    /\ IdleHost
    /\ IdleResize
    /\ IdleImg
    /\ IdleApp
    /\ IdleCall
    /\ eventLog \in SeqsUpTo(LoggedEnergies, MaxLog)
    /\ scalingC \in ScalingConstants
    /\ statsOut = NoStats

AnalyzeLog ==
    /\ statsOut = NoStats
    /\ statsOut' = analyzeRiemannProjection(eventLog, scalingC)
    /\ UNCHANGED <<eventLog, scalingC, simVars, hostVars, resizeVars, imgVars, callVars, appVars>>

NextStats == AnalyzeLog

SpecStats == InitStats /\ [][NextStats]_vars

-----------------------------------------------------------------------------
(* Properties of the simulator *)

ValidConfig ==
    params.field_w > 0 /\ params.field_h > 0 /\ params.sim_duration > 0

GridShape(m, h, w) ==
    /\ Len(m) = h
    /\ \A r \in 1..h : Len(m[r]) = w

\* C2, state part: under a valid config the knot map has field_h rows of
\* field_w entries from construction on, every entry is an integer between 0
\* and the number of steps done so far (at most sim_duration), and so is the
\* map runSimulation returned
C2_ShapeAndRange ==
    (ValidConfig /\ simPc \in {"ready", "running", "done"}) =>
        /\ GridShape(knot_map, params.field_h, params.field_w)
        /\ t <= params.sim_duration
        /\ \A r \in 1..params.field_h, c \in 1..params.field_w :
               knot_map[r][c] \in 0..t
        /\ (simPc = "done" =>
               /\ runResult.knot_map = knot_map
               /\ \A r \in 1..params.field_h, c \in 1..params.field_w :
                      runResult.knot_map[r][c] \in 0..params.sim_duration)

\* C2, step part: one step of the loop raises a cell by 0 or by 1
C2_AtMostOncePerStep ==
    (ValidConfig /\ simPc = "running" /\ t' = t + 1) =>
        \A r \in 1..params.field_h, c \in 1..params.field_w :
            knot_map'[r][c] - knot_map[r][c] \in {0, 1}

\* C2: for every valid config the knot map has exactly field_h rows of field_w
\* entries, every entry is an integer in [0, sim_duration], in every
\* intermediate state of the run too, and a cell is incremented at most once
\* per step
C2_KnotMapShapeAndRange == [](C2_ShapeAndRange) /\ [][C2_AtMostOncePerStep]_vars

\* a finished run of a valid config in which a cell was a knot in every step
C2_Witness ==
    /\ ValidConfig /\ simPc = "done" /\ params.sim_duration = MaxDuration
    /\ \E r \in 1..params.field_h, c \in 1..params.field_w :
           runResult.knot_map[r][c] = params.sim_duration

DegenerateStats ==
    [mean_re_s |-> 0, median_re_s |-> 0, std_dev_re_s |-> SCALE, count_near_0_5 |-> 0,
     total_projected_knots |-> 0, harmony_score |-> 0, internal_prescale_factor_used |-> 0]

\* C5: analyzeRiemannProjection called while the event log is empty (no run
\* yet, or a run that detected no knot) returns exactly mean 0, median 0,
\* stddev 1, count_near_target 0, total 0, harmony 0 and prescale 0
C5_EmptyLogStats ==
    [][(simPc \in {"ready", "done"} /\ detected_knot_base_values = << >>
        /\ riemannStats' # riemannStats) => riemannStats' = DegenerateStats]_vars

\* a valid config whose run detected no knot, analysed
C5_Witness ==
    /\ ValidConfig /\ simPc = "done" /\ runResult.total_knots = 0
    /\ detected_knot_base_values = << >>
    /\ riemannStats = DegenerateStats

\* C6 as claimed: with field_w, field_h or sim_duration zero or negative,
\* constructing and running the simulator fails with an error; runSimulation
\* never returns a knot map and a total as if the run had succeeded
C6_InvalidConfigFailsFast ==
    ~ValidConfig => simPc # "done"

ScenarioDone == params = ScenarioParams /\ simPc = "done"

RECURSIVE SumGrid(_)
SumGrid(m) == IF m = << >> THEN 0 ELSE SumSeq(Head(m)) + SumGrid(Tail(m))

\* C7 as claimed: in the scenario energy equals phase in every cell and all
\* 16 cells register a knot
C7_AllSixteenKnots ==
    ScenarioDone =>
        /\ energy_field = phase_field
        /\ runResult.total_knots = 16
        /\ \A r \in 1..4, c \in 1..4 : runResult.knot_map[r][c] = 1

\* C7, amended: in the scenario energy equals phase in every cell and a knot
\* is registered in exactly the cells whose energy is strictly above the
\* threshold 0; the four cells of column 0 (x = 0, energy exactly 0) register
\* none and the eight cells of the two inner columns all do, so total_knots is
\* at least 8 and at most 12
C7_KnotsWhereEnergyPositive ==
    ScenarioDone =>
        /\ energy_field = phase_field
        /\ \A r \in 1..4, c \in 1..4 :
               runResult.knot_map[r][c] = IF energy_field[r][c] > 0 THEN 1 ELSE 0
        /\ \A r \in 1..4 : energy_field[r][1] = 0 /\ runResult.knot_map[r][1] = 0
        /\ \A r \in 1..4, c \in 2..3 : runResult.knot_map[r][c] = 1
        /\ runResult.total_knots = SumGrid(runResult.knot_map)
        /\ runResult.total_knots \in 8..12

\* the scenario has run and the cells of the inner columns are knots
C7_Witness ==
    /\ ScenarioDone
    /\ runResult.total_knots = 12
    /\ runResult.knot_map[1][1] = 0 /\ runResult.knot_map[2][2] = 1

\* C14, state part: this.knot_map is the array allocated last; a finished
\* run leaves in the knot map and in the event log exactly the knots counted
\* by that run's own total; every array an earlier call returned still holds
\* what it held when it was returned
C14_LastRunOnly ==
    /\ simPc \in {"ready", "running", "done"} =>
           (knotMapRef = Len(arrays) /\ arrays[knotMapRef] = knot_map)
    /\ simPc = "done" =>
           /\ SumGrid(knot_map) = runResult.total_knots
           /\ Len(detected_knot_base_values) = runResult.total_knots
    /\ \A i \in 1..Len(returned) :
           /\ arrays[returned[i].ref] = returned[i].knot_map
           /\ (i < Len(returned) \/ simPc = "running") => returned[i].ref # knotMapRef

\* C14, step part: the start of a run leaves an all-zero knot map and an
\* empty event log
C14_ResetAtStart ==
    (simPc # "running" /\ simPc' = "running") =>
        /\ \A r \in 1..Len(knot_map') : \A c \in 1..Len(knot_map'[r]) : knot_map'[r][c] = 0
        /\ detected_knot_base_values' = << >>

\* C14: after any sequence of runSimulation calls on one instance the knot
\* map and the event log reflect only the most recent run (both are reset at
\* the start of each run), and a knot map returned by an earlier run is not
\* changed by any later run
C14_RunsDoNotAccumulate == [](C14_LastRunOnly) /\ [][C14_ResetAtStart]_vars

\* two runs have returned, each with several knots; the second returned
\* another array, holding its own knots only
C14_Witness ==
    /\ simPc = "done" /\ Len(returned) = 2
    /\ SumGrid(returned[1].knot_map) > 1
    /\ returned[2].ref # returned[1].ref
    /\ SumGrid(returned[2].knot_map) = runResult.total_knots
    /\ runResult.total_knots > 1
    /\ arrays[returned[1].ref] = returned[1].knot_map

\* C19, state part: when runSimulation has returned, total_knots equals the
\* sum of all entries of the returned knot map and the length of the event log
C19_TotalIsSumAndLogLength ==
    simPc = "done" =>
        /\ runResult.total_knots = SumGrid(runResult.knot_map)
        /\ runResult.total_knots = Len(detected_knot_base_values)

\* C19, step part: an analyzeRiemannProjection that follows a run reports
\* total_projected_knots equal to that run's total_knots
C19_AnalysisReportsTotal ==
    (simPc = "done" /\ simPc' = "done" /\ riemannStats' # riemannStats) =>
        riemannStats'.total_projected_knots = runResult.total_knots

\* C19: after every runSimulation total_knots equals the sum of all knot_map
\* entries and the length of the event log, and a following
\* analyzeRiemannProjection reports total_projected_knots equal to it
C19_TotalsAgree == [](C19_TotalIsSumAndLogLength) /\ [][C19_AnalysisReportsTotal]_vars

\* a run that counted knots in several steps, analysed
C19_Witness ==
    /\ simPc = "done"
    /\ runResult.total_knots > params.field_h * params.field_w
    /\ riemannStats # NoStats
    /\ riemannStats.total_projected_knots = runResult.total_knots

\* energy > threshold_s, phase > threshold_s and equal after rounding to
\* decimal_precision places
KnotCondition(e, ph) ==
    /\ e # NaN /\ ph # NaN
    /\ e > params.threshold_s
    /\ ph > params.threshold_s
    /\ RoundTo(e, params.decimal_precision) = RoundTo(ph, params.decimal_precision)

\* C20, state part: every value in the event log is strictly greater than
\* threshold_s and at most 1 + noise_factor
C20_LoggedEnergiesInRange ==
    \A i \in 1..Len(detected_knot_base_values) :
        /\ detected_knot_base_values[i] > params.threshold_s
        /\ detected_knot_base_values[i] <= SCALE + params.noise_factor

\* C20, step part: in a step a cell is counted (its knot_map entry grows by
\* one) if and only if the knot condition holds of its energy and phase, and
\* the values the step appends to the event log are the unrounded energies
\* of the counted cells, one per cell
C20_CountedIffCondition ==
    (simPc = "running" /\ t' = t + 1) =>
        LET counted == {rc \in (1..params.field_h) \X (1..params.field_w) :
                           knot_map'[rc[1]][rc[2]] = knot_map[rc[1]][rc[2]] + 1}
            before == Len(detected_knot_base_values)
        IN  /\ \A r \in 1..params.field_h, c \in 1..params.field_w :
                   /\ <<r, c>> \in counted <=>
                          KnotCondition(energy_field'[r][c], phase_field'[r][c])
                   /\ <<r, c>> \notin counted => knot_map'[r][c] = knot_map[r][c]
            /\ Len(detected_knot_base_values') = before + Cardinality(counted)
            /\ \A i \in 1..before :
                   detected_knot_base_values'[i] = detected_knot_base_values[i]
            /\ \A i \in (before + 1)..Len(detected_knot_base_values') :
                   \E rc \in counted :
                       detected_knot_base_values'[i] = energy_field'[rc[1]][rc[2]]
            /\ \A rc \in counted :
                   \E i \in (before + 1)..Len(detected_knot_base_values') :
                       detected_knot_base_values'[i] = energy_field'[rc[1]][rc[2]]

\* C20: in each step a cell is counted as a knot if and only if its energy
\* and its phase are strictly greater than threshold_s and equal after
\* rounding to decimal_precision places; every value in the event log is the
\* unrounded energy of such a cell, strictly greater than threshold_s and at
\* most 1 + noise_factor
C20_KnotIffCondition == [](C20_LoggedEnergiesInRange) /\ [][C20_CountedIffCondition]_vars

\* a step left a cell counted whose energy and phase differ and agree only
\* after rounding, beside a cell that is not counted
C20_Witness ==
    /\ simPc = "running" /\ t > 0
    /\ \E r \in 1..params.field_h, c \in 1..params.field_w :
           /\ knot_map[r][c] > 0
           /\ energy_field[r][c] # phase_field[r][c]
           /\ KnotCondition(energy_field[r][c], phase_field[r][c])
    /\ \E r \in 1..params.field_h, c \in 1..params.field_w :
           ~KnotCondition(energy_field[r][c], phase_field[r][c])

\* a number that is neither NaN nor outside [lo, hi]
DefinedIn(x, lo, hi) == x # NaN /\ x >= lo /\ x <= hi

\* C21 as claimed: for every config with positive integer field_w, field_h
\* and sim_duration, field_w = 1 or field_h = 1 included, the run raises no
\* error, every coordinate linspace(0, 2*pi, n) hands to updateWaves is a
\* defined number and the first one is 0, and every energy and phase value
\* computed is a defined number in [0, 1 + noise_factor]
C21_EveryValueDefined ==
    ValidConfig =>
        /\ simPc # "RangeError"
        /\ (simPc \in {"running", "done"} /\ t > 0) =>
               /\ \A n \in {params.field_w, params.field_h} :
                      LET coords == linspace(0, TURN, n)
                      IN  /\ Len(coords) = n
                          /\ coords[1] = 0
                          /\ \A i \in 1..n : coords[i] # NaN
               /\ \A r \in 1..params.field_h, c \in 1..params.field_w :
                      /\ DefinedIn(energy_field[r][c], 0, SCALE + params.noise_factor)
                      /\ DefinedIn(phase_field[r][c], 0, SCALE + params.noise_factor)

\* C25, first part: a step in which analyzeRiemannProjection returns
\* statistics changes neither the event log nor the knot map, nor any array
\* a run returned
C25_AnalysisChangesNothing ==
    (simPc \in {"ready", "done"} /\ simPc' = simPc /\ runs' = runs) =>
        /\ detected_knot_base_values' = detected_knot_base_values
        /\ knot_map' = knot_map
        /\ arrays' = arrays
        /\ returned' = returned
        /\ runResult' = runResult

\* C25, second part: once the statistics of the current event log have been
\* returned, every further call between two runs returns the same statistics
C25_RepeatedAnalysisAgrees ==
    (simPc \in {"ready", "done"} /\ simPc' = simPc /\ runs' = runs
     /\ riemannStats = analyzeRiemannProjection(detected_knot_base_values,
                                                params.re_s_scaling_c)) =>
        riemannStats' = riemannStats

\* C25: analyzeRiemannProjection is read-only: it changes neither the event
\* log nor the knot map, and calling it any number of times between two runs
\* returns the same statistics each time
C25_AnalysisIsReadOnly ==
    [][C25_AnalysisChangesNothing /\ C25_RepeatedAnalysisAgrees]_vars

\* a run that logged several knots has been analysed: the statistics are
\* those of the log, which still holds every knot of the run
C25_Witness ==
    /\ simPc = "done"
    /\ runResult.total_knots > 1
    /\ Len(detected_knot_base_values) = runResult.total_knots
    /\ riemannStats = analyzeRiemannProjection(detected_knot_base_values,
                                               params.re_s_scaling_c)
    /\ SumGrid(knot_map) = runResult.total_knots

-----------------------------------------------------------------------------
(* Properties of the statistics *)

\* C4: for every non-empty event log and every scaling constant c > 0,
\* a single value and all-identical values included, harmony_score is in [0, 1]
C4_HarmonyInUnitInterval ==
    (statsOut # NoStats /\ Len(eventLog) > 0) =>
        (statsOut.harmony_score >= 0 /\ statsOut.harmony_score <= SCALE)

\* a log of identical values, analysed: the fallback deviation 1.0 applies
C4_Witness ==
    /\ statsOut # NoStats
    /\ Len(eventLog) > 1
    /\ \A i \in 1..Len(eventLog) : eventLog[i] = eventLog[1]
    /\ statsOut.std_dev_re_s = SCALE
    /\ statsOut.harmony_score = 6000

\* the mean of the squared deviations from the mean, in hundredths of a unit
PopulationVariance(arr) ==
    LET mean == RDiv(SumSeq(arr), Len(arr))
    IN  RDiv(SumSeq([i \in 1..Len(arr) |-> SquareWide(Abs(arr[i] - mean))]), Len(arr))

AllEqual(arr) == \A i \in 1..Len(arr) : arr[i] = arr[1]

\* C12: std_dev_re_s is 1.0 when the log has one element or all projected
\* values are equal, and otherwise the population standard deviation of the
\* projected values (the square root of their variance, to a unit);
\* the log [0.1, 0.1, 0.1] with c = 1.0 yields 1.0
C12_StdDevOrFallback ==
    (statsOut # NoStats /\ Len(eventLog) > 0) =>
        LET projected == ProjectedValues(eventLog, scalingC)
            sd == statsOut.std_dev_re_s
        IN  /\ (Len(projected) = 1 \/ AllEqual(projected)) => sd = SCALE
            /\ ~(Len(projected) = 1 \/ AllEqual(projected)) =>
                   /\ sd > 0
                   /\ sd * sd <= PopulationVariance(projected) * 100
                   /\ (sd + 1) * (sd + 1) > PopulationVariance(projected) * 100
            /\ (eventLog = <<1000, 1000, 1000>> /\ scalingC = SCALE) => sd = SCALE

\* the log [0.1, 0.1, 0.1] analysed with c = 1.0
C12_Witness ==
    /\ statsOut # NoStats
    /\ eventLog = <<1000, 1000, 1000>> /\ scalingC = SCALE
    /\ statsOut.std_dev_re_s = SCALE

-----------------------------------------------------------------------------
(* resizeKnotMap *)

\* a store into a Uint8ClampedArray of an integer or NaN
ToUint8Clamped(x) == IF x = NaN THEN 0 ELSE IF x < 0 THEN 0 ELSE IF x > 255 THEN 255 ELSE x

\* let max = 0; ... if (v > max) max = v, over a matrix
GridMax(m) ==
    LET vals == {0} \cup {m[r][c] : r \in 1..Len(m), c \in 1..Len(m[1])}
    IN  CHOOSE x \in vals : \A y \in vals : y <= x

\* the red channel of sourceImageData: Math.floor((k / maxKnotVal) * 255)
SourceBytes(km) ==
    LET maxKnotVal == IF GridMax(km) = 0 THEN 1 ELSE GridMax(km)
    IN  [r \in 1..Len(km) |-> [c \in 1..Len(km[1]) |->
            ToUint8Clamped((km[r][c] * 255) \div maxKnotVal)]]

\* Smoothed scaling by drawImage, one axis: the weight of source sample j
\* (1-based, of ns) in target sample i (1-based, of nt), over the denominator
\* AxisDenominator.  "bilinear" interpolates between the two samples nearest
\* to the centre of the target sample; "area" averages the source samples the
\* target sample covers.
AxisDenominator(resampler, ns, nt) == IF resampler = "bilinear" THEN 2 * nt ELSE ns

AxisWeight(resampler, ns, nt, i, j) ==
    IF resampler = "bilinear"
    THEN LET d == 2 * nt
             raw == (2 * i - 1) * ns - nt
             pos == IF raw < 0 THEN 0 ELSE IF raw > (ns - 1) * d THEN (ns - 1) * d ELSE raw
             lo == pos \div d
             frac == pos % d
         IN  IF j - 1 = lo THEN d - frac
             ELSE IF j - 1 = lo + 1 THEN frac
             ELSE 0
    ELSE LET left == IF (i - 1) * ns > (j - 1) * nt THEN (i - 1) * ns ELSE (j - 1) * nt
             right == IF i * ns < j * nt THEN i * ns ELSE j * nt
         IN  IF right > left THEN right - left ELSE 0

\* targetCtx.drawImage(sourceCanvas, 0, 0, sw, sh, 0, 0, tw, th) followed by
\* getImageData: the red channel of the scaled image
DrawImageScaled(resampler, src, th, tw) ==
    LET sh == Len(src)
        sw == Len(src[1])
    IN  [r \in 1..th |-> [c \in 1..tw |->
            RDiv(SumSeq([k \in 1..(sh * sw) |->
                     LET sr == ((k - 1) \div sw) + 1
                         sc == ((k - 1) % sw) + 1
                     IN  AxisWeight(resampler, sh, th, r, sr)
                         * AxisWeight(resampler, sw, tw, c, sc) * src[sr][sc]]),
                 AxisDenominator(resampler, sh, th) * AxisDenominator(resampler, sw, tw))]]

\* the second normalisation, without its guard maxResizedVal > 0
NormalizeResizedUnguarded(vals, maxResizedVal) ==
    [r \in 1..Len(vals) |-> [c \in 1..Len(vals[1]) |->
        IF maxResizedVal = 0 THEN NaN ELSE RDiv(vals[r][c] * SCALE, maxResizedVal)]]

\* if (maxResizedVal > 0) resizedKnotMap[r][c] /= maxResizedVal
NormalizeResized(vals, maxResizedVal) ==
    IF maxResizedVal > 0
    THEN [r \in 1..Len(vals) |-> [c \in 1..Len(vals[1]) |->
             RDiv(vals[r][c] * SCALE, maxResizedVal)]]
    ELSE vals

\* ReadResized with rows and columns exchanged
ReadResizedTransposed(bytes, th, tw) ==
    [r \in 1..tw |-> [c \in 1..th |-> RDiv(bytes[c][r] * SCALE, 255)]]

\* resizedKnotMap[r][c] = resizedImageData.data[(r * targetWidth + c) * 4] / 255
ReadResized(bytes, th, tw) ==
    [r \in 1..th |-> [c \in 1..tw |-> RDiv(bytes[r][c] * SCALE, 255)]]

IsEmptyKnotMap(km) == Len(km) = 0 \/ Len(km[1]) = 0

\* the value resizeKnotMap returns when both canvas contexts are available
resizeKnotMapResult(resampler, km, tw, th) ==
    IF IsEmptyKnotMap(km) THEN ZeroGrid(th, tw)
    ELSE LET vals == ReadResized(DrawImageScaled(resampler, SourceBytes(km), th, tw), th, tw)
         IN  NormalizeResized(vals, GridMax(vals))

Resamplers == {"bilinear", "area"}

MapShapes == {hw \in (1..MaxMapCells) \X (1..MaxMapCells) : hw[1] * hw[2] <= MaxMapCells}

KnotMaps ==
    {<< >>, << << >> >>}
    \cup UNION {[1..hw[1] -> [1..hw[2] -> 0..MaxKnot]] : hw \in MapShapes}

InitResize ==
    /\ IdleSim
    /\ IdleHost
    /\ IdleStats
    /\ IdleImg
    /\ IdleApp
    /\ IdleCall
    /\ knotMap \in KnotMaps
    /\ targetWidth \in 1..MaxTarget
    /\ targetHeight \in 1..MaxTarget
    /\ resizePc = "call"
    /\ resizedKnotMap = << >>

\* resizeKnotMap(knotMap, targetWidth, targetHeight) returns
ResizeReturn ==
    /\ resizePc = "call"
    /\ \E resampler \in Resamplers :
           resizedKnotMap' = resizeKnotMapResult(resampler, knotMap, targetWidth, targetHeight)
    /\ resizePc' = "returned"
    /\ UNCHANGED <<knotMap, targetWidth, targetHeight, simVars, hostVars, statVars, imgVars,
                   callVars, appVars>>

\* getContext('2d') returns null for the source or the target canvas:
\* resizeKnotMap throws
ResizeThrow ==
    /\ resizePc = "call"
    /\ ~IsEmptyKnotMap(knotMap)
    /\ resizePc' = "Error"
    /\ UNCHANGED <<knotMap, targetWidth, targetHeight, resizedKnotMap,
                   simVars, hostVars, statVars, imgVars, callVars, appVars>>

NextResize == ResizeReturn \/ ResizeThrow

SpecResize == InitResize /\ [][NextResize]_vars

-----------------------------------------------------------------------------
(* Properties of resizeKnotMap *)

AllZero(m) == \A r \in 1..Len(m) : \A c \in 1..Len(m[r]) : m[r][c] = 0

\* C9: resizeKnotMap applied to an all-zero knot map returns a targetHeight x
\* targetWidth matrix whose entries are all exactly 0, none of them NaN
C9_AllZeroStaysZero ==
    (resizePc = "returned" /\ AllZero(knotMap)) =>
        /\ GridShape(resizedKnotMap, targetHeight, targetWidth)
        /\ \A r \in 1..targetHeight, c \in 1..targetWidth :
               resizedKnotMap[r][c] # NaN /\ resizedKnotMap[r][c] = 0

\* an all-zero map of several cells, resampled through the canvas to a
\* different size
C9_Witness ==
    /\ resizePc = "returned"
    /\ ~IsEmptyKnotMap(knotMap) /\ AllZero(knotMap)
    /\ Len(knotMap) * Len(knotMap[1]) > 1
    /\ targetWidth # Len(knotMap[1])
    /\ AllZero(resizedKnotMap)

\* C10: for every knot map with non-negative entries and every target size,
\* the matrix returned has exactly targetHeight rows of targetWidth entries,
\* each in [0, 1]
C10_ResizedInUnitInterval ==
    (resizePc = "returned"
     /\ \A r \in 1..Len(knotMap) : \A c \in 1..Len(knotMap[r]) : knotMap[r][c] >= 0) =>
        /\ GridShape(resizedKnotMap, targetHeight, targetWidth)
        /\ \A r \in 1..targetHeight, c \in 1..targetWidth :
               /\ resizedKnotMap[r][c] # NaN
               /\ resizedKnotMap[r][c] >= 0
               /\ resizedKnotMap[r][c] <= SCALE

\* a map with distinct non-zero entries scaled down to a non-square target,
\* where one returned entry is 1 and another lies strictly between 0 and 1
C10_Witness ==
    /\ resizePc = "returned"
    /\ targetWidth # targetHeight
    /\ \E r \in 1..targetHeight, c \in 1..targetWidth : resizedKnotMap[r][c] = SCALE
    /\ \E r \in 1..targetHeight, c \in 1..targetWidth :
           resizedKnotMap[r][c] > 0 /\ resizedKnotMap[r][c] < SCALE

\* k / maxKnotVal, with maxKnotVal = 0 replaced by 1
MaxNormalized(km) ==
    LET maxKnotVal == IF GridMax(km) = 0 THEN 1 ELSE GridMax(km)
    IN  [r \in 1..Len(km) |-> [c \in 1..Len(km[1]) |-> RDiv(km[r][c] * SCALE, maxKnotVal)]]

\* C11 as claimed: resampling a knot map to its own dimensions returns the
\* max-normalized map, every cell being knotMap[r][c] / max(knotMap)
C11_SameSizeIsNormalizedMap ==
    (resizePc = "returned" /\ ~IsEmptyKnotMap(knotMap)
     /\ targetHeight = Len(knotMap) /\ targetWidth = Len(knotMap[1])) =>
        resizedKnotMap = MaxNormalized(knotMap)

\* C18 as claimed: for every knot map with at least one non-zero entry and
\* every target size the matrix returned has maximum entry exactly 1; it is
\* never all-zero when the source is not all-zero
C18_NonZeroMapSpansUnitInterval ==
    (resizePc = "returned" /\ ~IsEmptyKnotMap(knotMap) /\ ~AllZero(knotMap)) =>
        /\ ~AllZero(resizedKnotMap)
        /\ GridMax(resizedKnotMap) = SCALE

-----------------------------------------------------------------------------
(* The canvas operations: applyPostProcessing, resizeImageData,            *)
(* imageDataToDataURL, loadImageData.  An image is its width and height,   *)
(* whether it was drawn through a scaling drawImage, and the filter it was *)
(* drawn with.                                                             *)

NoFilter == [name |-> "", px |-> 0]

\* an ImageData that no operation has touched
InputImage(w, h) == [width |-> w, height |-> h, drawn |-> FALSE, filter |-> NoFilter]

\* the content of a canvas of w x h after drawImage(source, ..., 0, 0, w, h)
\* under filter f
DrawnImage(w, h, f) == [width |-> w, height |-> h, drawn |-> TRUE, filter |-> f]

\* blurRadius: clamp((1.0 - harmonyScore) * 1.5, 0, 2.5) in the first
\* definition, clamp((1.0 - harmonyScore) * 1.0, 0, 3) in the second
BlurRadius(definition, harmony) ==
    IF definition = "first" THEN clamp(Mul(SCALE - harmony, 15000), 0, 25000)
    ELSE clamp(Mul(SCALE - harmony, SCALE), 0, 3 * SCALE)

\* filterString: px is blurRadius.toFixed(1), in tenths of a pixel
FilterString(definition, harmony) ==
    IF Gt(harmony, 7500) THEN [name |-> "contrast(1.05) saturate(1.03)", px |-> 0]
    ELSE IF harmony # NaN /\ harmony < 2500
         THEN [name |-> "blur", px |-> RDiv(BlurRadius(definition, harmony), 1000)]
         ELSE NoFilter

\* applyPostProcessing(imageData, harmonyScore, targetWidth, targetHeight);
\* host[i] tells whether the i-th getContext('2d') returns a context.  Both
\* definitions ask for the contexts of two canvases, resolve with imageData
\* itself when either is null, and ask for a third when a filter is chosen.
applyPostProcessing(definition, imageData, harmony, tw, th, host) ==
    IF ~host[1] THEN [pc |-> "resolved", value |-> imageData, contexts |-> <<FALSE>>]
    ELSE IF ~host[2] THEN [pc |-> "resolved", value |-> imageData, contexts |-> <<TRUE, FALSE>>]
    ELSE IF FilterString(definition, harmony) = NoFilter
         THEN [pc |-> "resolved", value |-> DrawnImage(tw, th, NoFilter),
               contexts |-> <<TRUE, TRUE>>]
    ELSE IF host[3]
         THEN [pc |-> "resolved", value |-> DrawnImage(tw, th, FilterString(definition, harmony)),
               contexts |-> <<TRUE, TRUE, TRUE>>]
         ELSE [pc |-> "resolved", value |-> DrawnImage(tw, th, NoFilter),
               contexts |-> <<TRUE, TRUE, FALSE>>]

\* resizeImageData(imageData, newWidth, newHeight); only the first definition
\* resolves with imageData itself when the size is already the requested one
resizeImageData(definition, imageData, newWidth, newHeight, host) ==
    IF definition = "first" /\ imageData.width = newWidth /\ imageData.height = newHeight
    THEN [pc |-> "resolved", value |-> imageData, contexts |-> << >>]
    ELSE IF ~host[1] THEN [pc |-> "rejected", value |-> NoValue, contexts |-> <<FALSE>>]
    ELSE IF ~host[2] THEN [pc |-> "rejected", value |-> NoValue, contexts |-> <<TRUE, FALSE>>]
    ELSE [pc |-> "resolved", value |-> DrawnImage(newWidth, newHeight, NoFilter),
          contexts |-> <<TRUE, TRUE>>]

\* imageDataToDataURL(imageData): the data URL of the canvas the image was put on
imageDataToDataURL(imageData, host) ==
    IF ~host[1] THEN [pc |-> "Error", value |-> NoValue, contexts |-> <<FALSE>>]
    ELSE [pc |-> "returned", value |-> [dataURL |-> imageData], contexts |-> <<TRUE>>]

\* loadImageData(imageSrc): img.onerror rejects, img.onload draws the image
loadImageData(imageSrc, host) ==
    IF ~imageSrc.decodes THEN [pc |-> "rejected", value |-> NoValue, contexts |-> << >>]
    ELSE IF ~host[1] THEN [pc |-> "rejected", value |-> NoValue, contexts |-> <<FALSE>>]
    ELSE [pc |-> "resolved", value |-> InputImage(imageSrc.width, imageSrc.height),
          contexts |-> <<TRUE>>]

Definitions == {"first", "second"}

Harmonies == {-25000, -SCALE, 0, 2400, 2500, 5000, 7500, 7600, SCALE}

CanvasSizes == 1..MaxCanvas

HostContexts == [1..3 -> BOOLEAN]

InitCanvas ==
    /\ IdleSim
    /\ IdleHost
    /\ IdleStats
    /\ IdleResize
    /\ IdleImg
    /\ IdleApp
    /\ \E w \in CanvasSizes, h \in CanvasSizes :
           \/ /\ callee = "applyPostProcessing"
              /\ args \in [definition : Definitions, imageData : {InputImage(w, h)},
                           harmonyScore : Harmonies,
                           targetWidth : CanvasSizes, targetHeight : CanvasSizes]
           \/ /\ callee = "resizeImageData"
              /\ args \in [definition : Definitions, imageData : {InputImage(w, h)},
                           newWidth : CanvasSizes, newHeight : CanvasSizes]
           \/ /\ callee = "imageDataToDataURL"
              /\ args = [imageData |-> InputImage(w, h)]
           \/ /\ callee = "loadImageData"
              /\ args \in [imageSrc : [width : {w}, height : {h}, decodes : BOOLEAN]]
    /\ result = NoValue
    /\ callPc = "call"
    /\ contexts = << >>

\* the call frame after the call whose outcome is out
Settle(out) ==
    /\ callPc' = out.pc
    /\ result' = out.value
    /\ contexts' = out.contexts
    /\ UNCHANGED <<callee, args, simVars, hostVars, statVars, resizeVars, imgVars, appVars>>

ApplyPostProcessing ==
    /\ callPc = "call" /\ callee = "applyPostProcessing"
    /\ \E host \in HostContexts :
           Settle(applyPostProcessing(args.definition, args.imageData, args.harmonyScore,
                                      args.targetWidth, args.targetHeight, host))

ResizeImageData ==
    /\ callPc = "call" /\ callee = "resizeImageData"
    /\ \E host \in HostContexts :
           Settle(resizeImageData(args.definition, args.imageData, args.newWidth,
                                  args.newHeight, host))

ImageDataToDataURL ==
    /\ callPc = "call" /\ callee = "imageDataToDataURL"
    /\ \E host \in HostContexts : Settle(imageDataToDataURL(args.imageData, host))

LoadImageData ==
    /\ callPc = "call" /\ callee = "loadImageData"
    /\ \E host \in HostContexts : Settle(loadImageData(args.imageSrc, host))

NextCanvas == ApplyPostProcessing \/ ResizeImageData \/ ImageDataToDataURL \/ LoadImageData

SpecCanvas == InitCanvas /\ [][NextCanvas]_vars

-----------------------------------------------------------------------------
(* Properties of the canvas operations *)

Completed == callPc \in {"resolved", "returned"}

\* the image the operation was asked for
AsRequested ==
    CASE callee = "applyPostProcessing" ->
             result = DrawnImage(args.targetWidth, args.targetHeight,
                                 FilterString(args.definition, args.harmonyScore))
      [] callee = "resizeImageData" ->
             result.width = args.newWidth /\ result.height = args.newHeight
      [] callee = "imageDataToDataURL" -> result = [dataURL |-> args.imageData]
      [] callee = "loadImageData" ->
             result = InputImage(args.imageSrc.width, args.imageSrc.height)

\* C13 as claimed: whenever an image operation cannot obtain a 2D context the
\* failure is surfaced as a thrown error or rejected promise; no operation
\* completes successfully after a getContext returned null, or with data that
\* was not resized or filtered as requested
C13_ContextFailureSurfaced ==
    Completed =>
        /\ \A i \in 1..Len(contexts) : contexts[i]
        /\ AsRequested

\* C16 as claimed: applyPostProcessing applies sharpening iff harmony > 0.75,
\* blur iff harmony < 0.25 and no filter iff 0.25 <= harmony <= 0.75, the
\* blur radius being a linear function of (1 - harmony) limited by a cap, and
\* the image it resolves with always has the target width and height
C16_ThreeModesAndTargetSize ==
    (callee = "applyPostProcessing" /\ callPc = "resolved") =>
        /\ result.width = args.targetWidth
        /\ result.height = args.targetHeight
        /\ result.filter.name = "contrast(1.05) saturate(1.03)" <=> args.harmonyScore > 7500
        /\ result.filter.name = "blur" <=> args.harmonyScore < 2500
        /\ result.filter.name = "" <=>
               (args.harmonyScore >= 2500 /\ args.harmonyScore <= 7500)
        /\ result.filter.name = "blur" =>
               LET slope == IF args.definition = "first" THEN 15000 ELSE SCALE
                   cap == IF args.definition = "first" THEN 25000 ELSE 3 * SCALE
                   linear == Mul(SCALE - args.harmonyScore, slope)
               IN  result.filter.px = RDiv(IF linear > cap THEN cap ELSE linear, 1000)

-----------------------------------------------------------------------------
(* extractMainColors *)

\* SampleRate with Math.round in the place of Math.floor
SampleRateRounded(length) ==
    IF RDiv(length, 4 * 2000) > 1 THEN RDiv(length, 4 * 2000) ELSE 1

\* Math.max(1, Math.floor(pixels.length / (4 * 2000)))
SampleRate(length) == IF length \div (4 * 2000) > 1 THEN length \div (4 * 2000) ELSE 1

\* Math.floor(v / 32) * 32 + 16, the centre of the bin of a channel value
BinCentre(v) == (v \div 32) * 32 + 16

\* the body of the sampling loop for the pixel at byte offset i (from 0)
CountPixel(colorCounts, pixels, i) ==
    LET r == pixels[i + 1]
        g == pixels[i + 2]
        b == pixels[i + 3]
        sum == r + g + b
        same == {k \in 1..Len(colorCounts) :
                    /\ colorCounts[k].r = BinCentre(r)
                    /\ colorCounts[k].g = BinCentre(g)
                    /\ colorCounts[k].b = BinCentre(b)}
    IN  IF sum < 60 \/ sum > 700 THEN colorCounts
        ELSE IF same = {}
             THEN Append(colorCounts, [r |-> BinCentre(r), g |-> BinCentre(g),
                                       b |-> BinCentre(b), count |-> 1])
             ELSE [k \in 1..Len(colorCounts) |->
                      IF k \in same THEN [colorCounts[k] EXCEPT !.count = @ + 1]
                      ELSE colorCounts[k]]

\* the iterations number lo .. hi of the sampling loop, in their order;
\* iteration k reads the pixel at byte offset 4 * sampleRate * k
RECURSIVE CountSamples(_, _, _, _, _)
CountSamples(colorCounts, pixels, sampleRate, lo, hi) ==
    IF lo > hi THEN colorCounts
    ELSE IF lo = hi THEN CountPixel(colorCounts, pixels, 4 * sampleRate * lo)
    ELSE LET mid == (lo + hi) \div 2
             firstHalf == CountSamples(colorCounts, pixels, sampleRate, lo, mid)
         IN  \* the test makes the first half be evaluated before the second
             IF Len(firstHalf) >= 0
             THEN CountSamples(firstHalf, pixels, sampleRate, mid + 1, hi)
             ELSE firstHalf

\* Object.values(colorCounts) after the sampling loop, from byte offset i on
\* (i a multiple of 4 * sampleRate): the bins in the order of their first
\* sample.  The loop runs while i < pixels.length.
CountColors(colorCounts, pixels, sampleRate, i) ==
    CountSamples(colorCounts, pixels, sampleRate, i \div (4 * sampleRate),
                 (Len(pixels) - 1) \div (4 * sampleRate))

\* SortByCount leaving the bins in the order of their first sample
KeepInsertionOrder(colors) == colors

\* .sort((a, b) => b.count - a.count): by count, largest first, bins of equal
\* count in their former order
RECURSIVE SortByCount(_)
SortByCount(colors) ==
    IF colors = << >> THEN << >>
    ELSE LET sortedRest == SortByCount(SubSeq(colors, 1, Len(colors) - 1))
             last == colors[Len(colors)]
             ahead == {k \in 1..Len(sortedRest) : sortedRest[k].count >= last.count}
         IN  SubSeq(sortedRest, 1, Cardinality(ahead)) \o << last >>
             \o SubSeq(sortedRest, Cardinality(ahead) + 1, Len(sortedRest))

\* (r / 255 + g / 255 + b / 255) / 3.0
Activation(r, g, b) ==
    RDiv(RDiv(r * SCALE, 255) + RDiv(g * SCALE, 255) + RDiv(b * SCALE, 255), 3)

MainColor(r, g, b) == [r |-> r, g |-> g, b |-> b, activation |-> Activation(r, g, b)]

\* Math.floor(Math.random() * 176) + 80, drawn in generator state s
RandomChannel(s) == ((MathRandom(s) * 176) \div SCALE) + 80

\* the while loop that fills mainColors up to numColors entries, from
\* generator state s
RECURSIVE PadColors(_, _, _)
PadColors(mainColors, numColors, s) ==
    IF ~(Len(mainColors) < numColors) THEN mainColors
    ELSE PadColors(Append(mainColors,
                          MainColor(RandomChannel(s), RandomChannel(RngNext(s)),
                                    RandomChannel(RngNext(RngNext(s))))),
                   numColors, RngNext(RngNext(RngNext(s))))

\* extractMainColors(imageData, numColors), from generator state s
extractMainColors(pixels, numColors, s) ==
    LET sortedColors == SortByCount(CountColors(<< >>, pixels, SampleRate(Len(pixels)), 0))
        taken == IF Len(sortedColors) < numColors THEN Len(sortedColors) ELSE numColors
        found == [i \in 1..taken |->
                     MainColor(sortedColors[i].r, sortedColors[i].g, sortedColors[i].b)]
    IN  PadColors(found, numColors, s)

\* pixels of the images whose colours are extracted: too dark, too light,
\* two of one bin, one of another bin
SampledPalette ==
    << <<0, 0, 0, 255>>, <<255, 255, 255, 255>>, <<200, 100, 50, 128>>,
       <<210, 110, 60, 255>>, <<10, 128, 250, 0>> >>

\* images of about 4000 and 6000 pixels, where the sampling stride changes:
\* black but for the pixels 1 .. MaxPixels (counted from 0), of which the
\* marked ones hold the colours of three distinct bins
LargeImageSizes == {3999, 4000, 5999, 6000}

LargeImage(totalPixels, marked) ==
    [i \in 1..(4 * totalPixels) |->
        LET pixel == (i - 1) \div 4
            channel == ((i - 1) % 4) + 1
        IN  IF pixel \in marked
            THEN SampledPalette[3 + (pixel % 3)][channel]
            ELSE SampledPalette[1][channel]]

RECURSIVE Flatten(_)
Flatten(pixelSeq) == IF pixelSeq = << >> THEN << >> ELSE Head(pixelSeq) \o Flatten(Tail(pixelSeq))

InitColors ==
    /\ IdleSim
    /\ IdleStats
    /\ IdleResize
    /\ IdleImg
    /\ IdleApp
    /\ sinResidue = 0
    /\ rngState \in 0..(RngPeriod - 1)
    /\ callee = "extractMainColors"
    /\ \E pixelSeq \in SeqsUpTo({SampledPalette[k] : k \in 1..Len(SampledPalette)}, MaxPixels) :
           /\ pixelSeq # << >>
           /\ \E numColors \in 0..MaxColors :
                  args = [imageData |-> [data |-> Flatten(pixelSeq)], numColors |-> numColors]
    /\ result = NoValue
    /\ callPc = "call"
    /\ contexts = << >>

ExtractMainColors ==
    /\ callPc = "call" /\ callee = "extractMainColors"
    /\ result' = extractMainColors(args.imageData.data, args.numColors, rngState)
    /\ LET bins == Len(CountColors(<< >>, args.imageData.data,
                                   SampleRate(Len(args.imageData.data)), 0))
           padded == IF bins < args.numColors THEN args.numColors - bins ELSE 0
       IN  rngState' = RngSkip(rngState, (3 * padded) % RngPeriod)
    /\ callPc' = "returned"
    /\ UNCHANGED <<callee, args, contexts, sinResidue, simVars, statVars, resizeVars, imgVars, appVars>>

NextColors == ExtractMainColors

SpecColors == InitColors /\ [][NextColors]_vars

\* extractMainColors on the small images and on the images large enough for
\* a sampling stride above 1
InitSampling ==
    /\ IdleSim
    /\ IdleStats
    /\ IdleResize
    /\ IdleImg
    /\ IdleApp
    /\ sinResidue = 0
    /\ callee = "extractMainColors"
    /\ \/ /\ rngState \in 0..(RngPeriod - 1)
          /\ \E pixelSeq \in SeqsUpTo({SampledPalette[k] : k \in 1..Len(SampledPalette)},
                                      MaxPixels - 1) :
                 /\ pixelSeq # << >>
                 /\ \E numColors \in 0..MaxColors :
                        args = [imageData |-> [data |-> Flatten(pixelSeq)],
                                numColors |-> numColors]
       \/ /\ rngState = 0
          /\ \E totalPixels \in LargeImageSizes, marked \in SUBSET (1..MaxPixels) :
                 args = [imageData |-> [data |-> LargeImage(totalPixels, marked)],
                         numColors |-> MaxColors]
    /\ result = NoValue
    /\ callPc = "call"
    /\ contexts = << >>

SpecSampling == InitSampling /\ [][NextColors]_vars

-----------------------------------------------------------------------------
(* Properties of extractMainColors *)

\* the byte offsets (from 0) of the sampled pixels the filter accepts
AcceptedSamples(pixels) ==
    {i \in 0..(Len(pixels) - 1) :
        /\ i % (4 * SampleRate(Len(pixels))) = 0
        /\ pixels[i + 1] + pixels[i + 2] + pixels[i + 3] >= 60
        /\ pixels[i + 1] + pixels[i + 2] + pixels[i + 3] <= 700}

\* the number of accepted samples in the bin whose centre is the colour
SampleCount(pixels, colour) ==
    Cardinality({i \in AcceptedSamples(pixels) :
                    /\ BinCentre(pixels[i + 1]) = colour.r
                    /\ BinCentre(pixels[i + 2]) = colour.g
                    /\ BinCentre(pixels[i + 3]) = colour.b})

\* the number of distinct bins among the accepted samples
DistinctBins(pixels) ==
    Cardinality({<<BinCentre(pixels[i + 1]), BinCentre(pixels[i + 2]), BinCentre(pixels[i + 3])>> :
                    i \in AcceptedSamples(pixels)})

\* C15: extractMainColors(image, n) returns exactly n entries: first the
\* distinct colour bins in non-increasing order of sample count, at most n of
\* them, then padding entries whose r, g, b are integers in [80, 255]; every
\* entry's activation equals (r + g + b) / (3 * 255), to the rounding of the
\* arithmetic, and lies in [0, 1]
C15_ExactlyNColours ==
    (callee = "extractMainColors" /\ callPc = "returned") =>
        LET pixels == args.imageData.data
            n == args.numColors
            bins == IF DistinctBins(pixels) < n THEN DistinctBins(pixels) ELSE n
        IN  /\ Len(result) = n
            /\ \A i \in 1..bins :
                   /\ SampleCount(pixels, result[i]) > 0
                   /\ \A j \in 1..bins : j # i =>
                          <<result[j].r, result[j].g, result[j].b>>
                              # <<result[i].r, result[i].g, result[i].b>>
                   /\ i < bins =>
                          SampleCount(pixels, result[i]) >= SampleCount(pixels, result[i + 1])
                   /\ \A k \in AcceptedSamples(pixels) :
                          SampleCount(pixels, [r |-> BinCentre(pixels[k + 1]),
                                               g |-> BinCentre(pixels[k + 2]),
                                               b |-> BinCentre(pixels[k + 3])])
                              > SampleCount(pixels, result[i])
                          => \E j \in 1..(i - 1) :
                                 /\ result[j].r = BinCentre(pixels[k + 1])
                                 /\ result[j].g = BinCentre(pixels[k + 2])
                                 /\ result[j].b = BinCentre(pixels[k + 3])
            /\ \A i \in (bins + 1)..n :
                   /\ result[i].r \in 80..255
                   /\ result[i].g \in 80..255
                   /\ result[i].b \in 80..255
            /\ \A i \in 1..n :
                   /\ result[i].activation >= 0 /\ result[i].activation <= SCALE
                   /\ Abs(result[i].activation
                          - RDiv((result[i].r + result[i].g + result[i].b) * SCALE, 3 * 255)) <= 1

\* three colours asked of an image with two bins: the bin sampled twice comes
\* first although it was met second, then the other bin, then one padding entry
C15_Witness ==
    /\ callee = "extractMainColors" /\ callPc = "returned"
    /\ args.numColors = 3 /\ Len(result) = 3
    /\ args.imageData.data[1] = 10
    /\ DistinctBins(args.imageData.data) = 2
    /\ result[1].r = 208 /\ SampleCount(args.imageData.data, result[1]) = 2
    /\ result[2].r = 16
    /\ result[3].r \in 80..255

\* max(1, floor(totalPixels / 2000))
ClaimedStride(totalPixels) ==
    IF totalPixels \div 2000 > 1 THEN totalPixels \div 2000 ELSE 1

\* the pixels (counted from 0) that the claimed stride visits and whose
\* R + G + B is neither below 60 nor above 700
CountedPixels(pixels) ==
    {k \in 0..((Len(pixels) \div 4) - 1) :
        /\ k % ClaimedStride(Len(pixels) \div 4) = 0
        /\ pixels[4 * k + 1] + pixels[4 * k + 2] + pixels[4 * k + 3] >= 60
        /\ pixels[4 * k + 1] + pixels[4 * k + 2] + pixels[4 * k + 3] <= 700}

\* floor(channel / 32) for the three channels of pixel k
BinIndex(pixels, k) ==
    <<pixels[4 * k + 1] \div 32, pixels[4 * k + 2] \div 32, pixels[4 * k + 3] \div 32>>

\* C24: extractMainColors ignores every sampled pixel whose R+G+B is below 60
\* or above 700 and every pixel the stride max(1, floor(totalPixels / 2000))
\* skips: the colours returned before the padding are the bins of the counted
\* pixels, one entry per bin, as many as fit in numColors, and each channel of
\* such a colour equals 32 * k + 16 with k = floor(channel / 32) in [0, 7] of
\* the pixels counted in that bin
C24_FilterBinsAndStride ==
    (callee = "extractMainColors" /\ callPc = "returned") =>
        LET pixels == args.imageData.data
            bins == {BinIndex(pixels, k) : k \in CountedPixels(pixels)}
            fromBins == IF Cardinality(bins) < args.numColors
                        THEN Cardinality(bins) ELSE args.numColors
        IN  /\ Len(result) >= fromBins
            /\ \A i \in 1..fromBins :
                   /\ \E bin \in bins :
                          /\ \A ch \in 1..3 : bin[ch] \in 0..7
                          /\ result[i].r = 32 * bin[1] + 16
                          /\ result[i].g = 32 * bin[2] + 16
                          /\ result[i].b = 32 * bin[3] + 16
                   /\ \A j \in 1..fromBins : j # i =>
                          <<result[j].r, result[j].g, result[j].b>>
                              # <<result[i].r, result[i].g, result[i].b>>

\* an image of 5999 pixels, sampled with stride 2: pixel 0 is too dark,
\* pixels 1 and 3 are coloured but skipped, pixel 2 is the only one counted,
\* and its bin is the only one returned before the padding
C24_Witness ==
    /\ callee = "extractMainColors" /\ callPc = "returned"
    /\ Len(args.imageData.data) = 4 * 5999
    /\ args.numColors = MaxColors
    /\ args.imageData.data[5] = 210 /\ args.imageData.data[9] = 10
    /\ args.imageData.data[13] = 200
    /\ CountedPixels(args.imageData.data) = {2}
    /\ <<result[1].r, result[1].g, result[1].b>> = <<16, 144, 240>>
    /\ result[2].r # 208 /\ result[2].r # 16

-----------------------------------------------------------------------------
(* processImageWithSubQG *)

\* a store of the non-negative number n / d into a Uint8ClampedArray: rounded
\* to the nearest integer, ties to even, then clamped
StoreClamped(n, d) ==
    LET q == n \div d
        rem == n % d
    IN  ToUint8Clamped(IF 2 * rem > d THEN q + 1
                       ELSE IF 2 * rem < d THEN q
                       ELSE IF q % 2 = 0 THEN q ELSE q + 1)

\* BrightnessMod with the activation not centred on 0.5
RECURSIVE BrightnessModUncentred(_, _)
BrightnessModUncentred(acc, acts) ==
    IF acts = << >> THEN acc
    ELSE BrightnessModUncentred(acc + Mul(Head(acts), 1500), Tail(acts))

\* currentBrightnessMod += (activation - 0.5) * 0.15, over the activations
RECURSIVE BrightnessMod(_, _)
BrightnessMod(acc, acts) ==
    IF acts = << >> THEN acc
    ELSE BrightnessMod(acc + Mul(Head(acts) - 5000, 1500), Tail(acts))

\* currentContrastMod *= (1.0 + (activation - 0.5) * 0.10), over the activations
RECURSIVE ContrastMod(_, _)
ContrastMod(acc, acts) ==
    IF acts = << >> THEN acc
    ELSE ContrastMod(Mul(acc, SCALE + Mul(Head(acts) - 5000, 1000)), Tail(acts))

\* step 1 for one channel: contrast and brightness around 0.5, clamped
BaseAdjust(ch, contrastMod, brightnessMod) ==
    clamp(Mul(ch - 5000, contrastMod) + 5000 + brightnessMod, 0, SCALE)

\* step 2: fieldInfluence of the pixel in row r_idx, column c_idx (from 0)
FieldInfluence(width, height, knotValue, harmony, offsetX, offsetY, r_idx, c_idx) ==
    LET waveFrequencyX == 3 * SCALE + Mul(harmony, 4 * SCALE)
        waveFrequencyY == 2 * SCALE + Mul(harmony, 3 * SCALE)
        knotPhase == RDiv(knotValue * TURN, 2 * SCALE)
        waveX == Sin(RDiv(c_idx * waveFrequencyX * TURN, width * SCALE) + knotPhase + offsetX)
        waveY == Sin(RDiv(r_idx * waveFrequencyY * TURN, height * SCALE) + knotPhase + offsetY)
    IN  Half(waveX + waveY)

\* TemperatureShift taking the warming branch for every shift
TemperatureShiftWarmOnly(rgb, effectiveColorTempShift) ==
    << clamp(rgb[1] + Mul(effectiveColorTempShift, 2000), 0, SCALE),
       clamp(rgb[2] + Mul(effectiveColorTempShift, 1000), 0, SCALE),
       clamp(rgb[3] - Mul(effectiveColorTempShift, 1500), 0, SCALE) >>

\* step 3, colour temperature: <<r, g, b>> after the shift
TemperatureShift(rgb, effectiveColorTempShift) ==
    IF effectiveColorTempShift > 0
    THEN << clamp(rgb[1] + Mul(effectiveColorTempShift, 2000), 0, SCALE),
            clamp(rgb[2] + Mul(effectiveColorTempShift, 1000), 0, SCALE),
            clamp(rgb[3] - Mul(effectiveColorTempShift, 1500), 0, SCALE) >>
    ELSE << clamp(rgb[1] + Mul(effectiveColorTempShift, 1500), 0, SCALE),
            clamp(rgb[2], 0, SCALE),
            clamp(rgb[3] - Mul(effectiveColorTempShift, 2000), 0, SCALE) >>

\* step 3, saturation around luma
SaturationShift(rgb, effectiveSaturationFactor) ==
    LET luma == Mul(2990, rgb[1]) + Mul(5870, rgb[2]) + Mul(1140, rgb[3])
    IN  [i \in 1..3 |-> clamp(luma + Mul(rgb[i] - luma, effectiveSaturationFactor), 0, SCALE)]

\* the byte written for a channel value ch in [0, 1]: the first definition
\* stores Math.round(clamp(ch * 255, 0, 255)), the second clamp(ch * 255, 0, 255)
ChannelByte(which, ch) ==
    IF which = "first" THEN ToUint8Clamped(RDiv(ch * 255, SCALE))
    ELSE StoreClamped(ch * 255, SCALE)

\* OutAlpha writing an opaque pixel
OutAlphaOpaque(originalAlpha) == 255

\* newData[pixelIdx + 3] = originalData[pixelIdx + 3]
OutAlpha(originalAlpha) == originalAlpha

\* the four bytes written for a pixel read as px = <<R, G, B, A>>
PixelOut(which, px, acts, brightness, contrast, harmony, fieldInfluence) ==
    LET brightnessMod == BrightnessMod(brightness, acts)
        contrastMod == ContrastMod(contrast, acts)
        base == [i \in 1..3 |-> BaseAdjust(RDiv(px[i] * SCALE, 255), contrastMod, brightnessMod)]
        fieldColorModulationStrength == Mul(1500, SCALE - harmony)
        fieldBrightnessVariationStrength == Mul(1000, SCALE - harmony)
        colorTempShift == Mul(harmony - 5000, 2500)
        saturationFactor == SCALE + Mul(harmony - 5000, 2500)
        effectiveColorTempShift ==
            Mul(colorTempShift, SCALE + Mul(fieldInfluence, fieldColorModulationStrength))
        effectiveSaturationFactor ==
            Mul(saturationFactor,
                SCALE + Mul(Mul(fieldInfluence, fieldColorModulationStrength), 5000))
        toned == SaturationShift(TemperatureShift(base, effectiveColorTempShift),
                                 effectiveSaturationFactor)
        brightnessFieldVariation == Mul(fieldInfluence, fieldBrightnessVariationStrength)
        final == [i \in 1..3 |-> clamp(toned[i] + brightnessFieldVariation, 0, SCALE)]
    IN  << ChannelByte(which, final[1]), ChannelByte(which, final[2]),
           ChannelByte(which, final[3]), OutAlpha(px[4]) >>

\* fieldInfluence of a pixel of the current call
FieldInfluenceAt(offsetX, offsetY, r_idx, c_idx) ==
    FieldInfluence(originalImageData.width, originalImageData.height,
                   resizedKnotMap[r_idx + 1][c_idx + 1], harmonyScore,
                   offsetX, offsetY, r_idx, c_idx)

\* the loop over the pixels, from pixel number idx on, on the heap heap:
\* originalData is read from buffer origBuf and newData written to buffer newBuf
RECURSIVE ProcessPixels(_, _, _, _, _, _)
ProcessPixels(heap, origBuf, newBuf, offsetX, offsetY, idx) ==
    IF idx >= originalImageData.width * originalImageData.height THEN heap
    ELSE LET pixelIdx == idx * 4
             px == [i \in 1..4 |-> heap[origBuf][pixelIdx + i]]
             out == PixelOut(variant, px, categoryActivations, brightnessFactor,
                             contrastFactor, harmonyScore,
                             FieldInfluenceAt(offsetX, offsetY,
                                              idx \div originalImageData.width,
                                              idx % originalImageData.width))
             written == [heap EXCEPT ![newBuf] =
                            [i \in 1..Len(@) |->
                                IF i > pixelIdx /\ i <= pixelIdx + 4 THEN out[i - pixelIdx]
                                ELSE @[i]]]
         IN  ProcessPixels(written, origBuf, newBuf, offsetX, offsetY, idx + 1)

\* pixels an input image is made of
Palette ==
    << <<0, 0, 0, 255>>, <<255, 255, 255, 255>>, <<200, 100, 50, 128>>, <<10, 128, 250, 0>> >>

\* the bytes of the w x h image whose pixel number i is Palette[(seed + i) mod n]
ImageBytes(w, h, seed) ==
    [i \in 1..(4 * w * h) |->
        Palette[((seed + ((i - 1) \div 4)) % Len(Palette)) + 1][((i - 1) % 4) + 1]]

ActivationVectors ==
    { [i \in 1..6 |-> 5000], [i \in 1..6 |-> 0],
      [i \in 1..6 |-> IF i % 2 = 0 THEN SCALE ELSE 2500] }

\* resampled knot maps of an image: all zero, or alternating over [0, 1]
KnotPatterns(w, h) ==
    { ZeroGrid(h, w),
      [r \in 1..h |-> [c \in 1..w |-> ((r + c) % 3) * 5000]] }

PhaseOffsets == {0, TURN \div 4, 3 * (TURN \div 4)}

InitImg ==
    /\ IdleSim
    /\ IdleStats
    /\ IdleCall
    /\ IdleApp
    /\ rngState = 0
    /\ sinResidue \in {0, 1}
    /\ variant \in {"first", "second"}
    /\ \E w \in 1..MaxImgW, h \in 1..MaxImgH, seed \in 0..(Len(Palette) - 1) :
           /\ originalImageData = [width |-> w, height |-> h, buffer |-> 1]
           /\ buffers = << ImageBytes(w, h, seed) >>
           /\ dataBefore = ImageBytes(w, h, seed)
           /\ resizedKnotMap \in KnotPatterns(w, h)
           /\ knotMap = << >>
           /\ targetWidth = w
           /\ targetHeight = h
           /\ resizePc = "idle"
    /\ categoryActivations \in ActivationVectors
    /\ brightnessFactor \in {-3000, 0, 3000}
    /\ contrastFactor \in {SCALE, 15000}
    /\ harmonyScore \in {0, 5000, SCALE}
    /\ globalPhaseOffsetX = 0
    /\ globalPhaseOffsetY = 0
    /\ newImageData = NoImage
    /\ imgPc = "call"

\* processImageWithSubQG(originalImageData, categoryActivations, brightnessFactor,
\* contrastFactor, resizedKnotMap, harmonyScore).  The first definition wraps
\* originalData.buffer in the new Uint8ClampedArray, the second copies it
\* with slice().
ProcessImage ==
    /\ imgPc = "call"
    /\ \E offsetX \in PhaseOffsets, offsetY \in PhaseOffsets :
           LET origBuf == originalImageData.buffer
               newBuf == IF variant = "first" THEN origBuf ELSE Len(buffers) + 1
               heap == IF variant = "first" THEN buffers
                       ELSE Append(buffers, buffers[origBuf])
           IN  /\ buffers' = ProcessPixels(heap, origBuf, newBuf, offsetX, offsetY, 0)
               /\ newImageData' = [width |-> originalImageData.width,
                                   height |-> originalImageData.height,
                                   buffer |-> newBuf]
               /\ globalPhaseOffsetX' = offsetX
               /\ globalPhaseOffsetY' = offsetY
    /\ imgPc' = "returned"
    /\ UNCHANGED <<variant, originalImageData, dataBefore, categoryActivations,
                   brightnessFactor, contrastFactor, harmonyScore,
                   simVars, hostVars, statVars, resizeVars, callVars, appVars>>

NextImg == ProcessImage

SpecImg == InitImg /\ [][NextImg]_vars

-----------------------------------------------------------------------------
(* The temperature step of processImageWithSubQG on its own *)

\* r, g, b after step 1, each in [0, 1]
ChannelValues == {0, 3000, 5000, SCALE}

\* effectiveColorTempShift = colorTempShift * (1 + fieldInfluence *
\* fieldColorModulationStrength), within +-0.125 * 1.15
TempShifts == {-1438, -1250, -625, 0, 625, 1250, 1438}

InitTemperature ==
    /\ IdleSim
    /\ IdleHost
    /\ IdleStats
    /\ IdleResize
    /\ IdleImg
    /\ IdleApp
    /\ callee = "temperature step"
    /\ args \in [rgb : ChannelValues \X ChannelValues \X ChannelValues,
                 effectiveColorTempShift : TempShifts]
    /\ result = NoValue
    /\ callPc = "call"
    /\ contexts = << >>

TemperatureStep ==
    /\ callPc = "call" /\ callee = "temperature step"
    /\ result' = TemperatureShift(args.rgb, args.effectiveColorTempShift)
    /\ callPc' = "returned"
    /\ UNCHANGED <<callee, args, contexts, simVars, hostVars, statVars, resizeVars, imgVars, appVars>>

NextTemperature == TemperatureStep

SpecTemperature == InitTemperature /\ [][NextTemperature]_vars

\* the step has run on channels far enough from 0 and 1 for no clamp to bind
TemperatureStepUnclamped ==
    /\ callee = "temperature step" /\ callPc = "returned"
    /\ \A i \in 1..3 : args.rgb[i] >= 1000 /\ args.rgb[i] <= 9000

\* C17 as claimed: when the effective shift is positive R increases by more
\* than G increases and B decreases; when it is not positive B decreases by
\* more than R increases and G is left unchanged
C17_CoolingLowersBlue ==
    TemperatureStepUnclamped =>
        LET dR == result[1] - args.rgb[1]
            dG == result[2] - args.rgb[2]
            dB == result[3] - args.rgb[3]
        IN  IF args.effectiveColorTempShift > 0
            THEN dR > dG /\ dG > 0 /\ dB < 0
            ELSE dB < 0 /\ dR >= 0 /\ (0 - dB) > dR /\ dG = 0

\* C17, amended: when the effective shift is positive (warming) R increases
\* by more than G increases and B decreases; when it is negative (cooling) R
\* decreases, B increases by more than R decreases and G is left unchanged;
\* when it is zero no channel changes
C17_CoolingRaisesBlue ==
    TemperatureStepUnclamped =>
        LET dR == result[1] - args.rgb[1]
            dG == result[2] - args.rgb[2]
            dB == result[3] - args.rgb[3]
        IN  /\ args.effectiveColorTempShift > 0 => (dR > dG /\ dG > 0 /\ dB < 0)
            /\ args.effectiveColorTempShift < 0 =>
                   (dR < 0 /\ dB > 0 /\ dB > (0 - dR) /\ dG = 0)
            /\ args.effectiveColorTempShift = 0 => (dR = 0 /\ dG = 0 /\ dB = 0)

\* a cooling shift applied to a mid-range colour: red fell, blue rose, green
\* stayed
C17_Witness ==
    /\ TemperatureStepUnclamped
    /\ args.effectiveColorTempShift < 0
    /\ result[1] < args.rgb[1] /\ result[3] > args.rgb[3] /\ result[2] = args.rgb[2]

-----------------------------------------------------------------------------
(* Properties of processImageWithSubQG *)

Pixels == 0..(originalImageData.width * originalImageData.height - 1)

\* C1 as claimed: after processImageWithSubQG returns, every byte of
\* originalImageData.data equals its value before the call and the returned
\* ImageData is backed by a different buffer
C1_InputNotMutated ==
    imgPc = "returned" =>
        /\ buffers[originalImageData.buffer] = dataBefore
        /\ newImageData.buffer # originalImageData.buffer

\* C3: the returned image has the width and height of the input, the alpha
\* byte of every pixel equals the input alpha byte of that pixel, and its R,
\* G and B bytes are integers in [0, 255]
C3_DimensionsAlphaAndRange ==
    imgPc = "returned" =>
        /\ newImageData.width = originalImageData.width
        /\ newImageData.height = originalImageData.height
        /\ Len(buffers[newImageData.buffer]) = Len(dataBefore)
        /\ \A p \in Pixels :
               /\ buffers[newImageData.buffer][4 * p + 4] = dataBefore[4 * p + 4]
               /\ \A i \in 1..3 : buffers[newImageData.buffer][4 * p + i] \in 0..255

\* a returned image with a translucent pixel whose colour was changed
C3_Witness ==
    /\ imgPc = "returned"
    /\ \E p \in Pixels :
           /\ dataBefore[4 * p + 4] = 128
           /\ buffers[newImageData.buffer][4 * p + 4] = 128
           /\ buffers[newImageData.buffer][4 * p + 1] # dataBefore[4 * p + 1]

NeutralArguments ==
    /\ brightnessFactor = 0
    /\ contrastFactor = SCALE
    /\ \A i \in 1..Len(categoryActivations) : categoryActivations[i] = 5000
    /\ \A p \in Pixels :
           FieldInfluenceAt(globalPhaseOffsetX, globalPhaseOffsetY,
                            p \div originalImageData.width,
                            p % originalImageData.width) = 0

SameColours ==
    \A p \in Pixels : \A i \in 1..3 :
        buffers[newImageData.buffer][4 * p + i] = dataBefore[4 * p + i]

\* C8 as claimed: with brightness 0, contrast 1, every activation 0.5 and
\* fieldInfluence 0 at every pixel the output R, G, B bytes equal the input
\* bytes, for every harmony score in [0, 1]
C8_IdentityForAnyHarmony ==
    (imgPc = "returned" /\ NeutralArguments) => SameColours

\* C8, amended: with brightness 0, contrast 1, every activation 0.5,
\* fieldInfluence 0 at every pixel and harmony score 0.5 (where the colour
\* temperature shift is 0 and the saturation factor is 1) the output R, G, B
\* bytes equal the input bytes
C8_IdentityAtNeutralHarmony ==
    (imgPc = "returned" /\ NeutralArguments /\ harmonyScore = 5000) => SameColours

\* a two-pixel image with coloured pixels returned unchanged under neutral
\* arguments at harmony 0.5
C8_Witness ==
    /\ imgPc = "returned" /\ NeutralArguments /\ harmonyScore = 5000
    /\ originalImageData.width * originalImageData.height > 1
    /\ \E p \in Pixels : dataBefore[4 * p + 1] = 200
    /\ SameColours

-----------------------------------------------------------------------------
(* generateImageWithGemini (src/services/geminiService.ts and its other     *)
(* copy, src/unnamed/part_001)                                             *)

\* what ai.models.generateImages can answer: a response with an image, with
\* an image object that has no imageBytes, with an entry that has no image,
\* with an empty or absent generatedImages, or an exception
Responses ==
    {[kind |-> "image"], [kind |-> "imageNoBytes"], [kind |-> "noImage"],
     [kind |-> "empty"], [kind |-> "absent"],
     [kind |-> "error", message |-> "API key not valid"],
     [kind |-> "error", message |-> "billed user"],
     [kind |-> "error", message |-> "404 not found"],
     [kind |-> "error", message |-> "network"]}

\* `data:image/png;base64,${base64ImageBytes}`
DataURL(imageBytes) == [prefix |-> "data:image/png;base64,", imageBytes |-> imageBytes]

\* the outcome once the service has answered (key = TRUE) or at once
\* (key = FALSE): how the call ends, the value returned and the number of
\* requests it sent.  geminiService.ts tests generatedImages and its length
\* only and returns null otherwise; part_001 also tests imageBytes and throws
\* otherwise.  Every exception inside the try block is rethrown as an Error.
generateImageWithGemini(copy, key, response) ==
    IF ~key THEN [pc |-> "Error", value |-> null, requests |-> 0]
    ELSE IF response.kind \in {"error", "noImage"}
         THEN [pc |-> "Error", value |-> null, requests |-> 1]
    ELSE IF response.kind = "image"
         THEN [pc |-> "returned", value |-> DataURL("iVBORw0KGgo"), requests |-> 1]
    ELSE IF copy = "geminiService.ts"
         THEN IF response.kind = "imageNoBytes"
              THEN [pc |-> "returned", value |-> DataURL("undefined"), requests |-> 1]
              ELSE [pc |-> "returned", value |-> null, requests |-> 1]
         ELSE [pc |-> "Error", value |-> null, requests |-> 1]

-----------------------------------------------------------------------------
(* The App component: its state and its handlers.  A handler runs from one  *)
(* await to the next in one step; the spinner covers the page while        *)
(* isLoading is set, so a handler starts only while it is not.             *)

MaxTransforms == 2   \* handleTransform calls that pass the guard

\* RESOLUTION_OPTIONS: the default option, the one that defines no width and
\* height, for which width 0 stands, and one that is not square
RESOLUTION_OPTIONS ==
    << [label |-> "Test Medium (512px)", width |-> 512, height |-> 512],
       [label |-> "Original", width |-> 0, height |-> 0],
       [label |-> "HD (Landscape, 720p)", width |-> 1280, height |-> 720] >>

\* the files a user can select: their pixel size, whether FileReader can read
\* them and whether the browser can decode them
Files ==
    {[width |-> 260, height |-> 2000, reads |-> TRUE, decodes |-> TRUE],
     [width |-> 512, height |-> 1, reads |-> TRUE, decodes |-> TRUE],
     [width |-> 0, height |-> 0, reads |-> TRUE, decodes |-> FALSE],
     [width |-> 0, height |-> 0, reads |-> FALSE, decodes |-> FALSE]}

\* the harmony scores a simulation can end with: one that selects a filter
\* and one that selects none
AppHarmonies == {2000, 5000}

\* reader.result for a file, and the image a data URL of the service decodes to
FileSrc(file) == [width |-> file.width, height |-> file.height, decodes |-> file.decodes]
GeneratedSrc(url) ==
    [width |-> 1024, height |-> 1024, decodes |-> url.imageBytes # "undefined", url |-> url]

\* Math.max(32, Math.min(128, size / 8)), with Math.floor(size / 8) in the
\* second copy; in units of 1/SCALE
FieldSize(copy, size) ==
    IF copy = "first" THEN MathMax(32 * SCALE, MathMin(128 * SCALE, size * (SCALE \div 8)))
    ELSE MathMax(32 * SCALE, MathMin(128 * SCALE, (size \div 8) * SCALE))

\* Array(n) for a number n in units of 1/SCALE: a RangeError unless n is a
\* non-negative integer
FieldAllocOk(h, w) == h >= 0 /\ h % SCALE = 0 /\ w >= 0 /\ w % SCALE = 0

\* the guard of handleTransform looking at the image source only
GuardSrcOnly == inputImageSrc = null

\* !inputImageSrc || !inputImageDimensions
Guard == inputImageSrc = null \/ inputImageDimensions = null

\* the width and height handed to resizeKnotMap, taken the wrong way round
KnotMapTargetTransposed(imageData) ==
    [targetWidth |-> imageData.height, targetHeight |-> imageData.width]

\* resizeKnotMap(knot_map, originalImageData.width, originalImageData.height)
KnotMapTarget(imageData) ==
    [targetWidth |-> imageData.width, targetHeight |-> imageData.height]

\* the matrix resizeKnotMap returns: targetHeight rows of targetWidth entries
resizeKnotMapShape(km, tw, th) == [run |-> km.run, rows |-> th, cols |-> tw]

\* targetWidth and targetHeight of handleTransform
TargetSize(label, imageData) ==
    LET found == {i \in 1..Len(RESOLUTION_OPTIONS) : RESOLUTION_OPTIONS[i].label = label}
        opt == RESOLUTION_OPTIONS[CHOOSE i \in found : TRUE]
    IN  IF found # {} /\ opt.width # 0 /\ opt.height # 0
        THEN [width |-> opt.width, height |-> opt.height]
        ELSE [width |-> imageData.width, height |-> imageData.height]

\* the test after applyPostProcessing, never asking for the resize
NeedsResizeNever(imageData, target) == FALSE

\* processedImageData.width !== targetWidth || processedImageData.height !== targetHeight
NeedsResize(imageData, target) ==
    imageData.width # target.width \/ imageData.height # target.height

\* the locals of a handleTransform call that passed the guard
TransformHandler(run) ==
    [name |-> "handleTransform", pc |-> "loadImageData", run |-> run, error |-> FALSE,
     imageSrc |-> inputImageSrc, resolution |-> resolution,
     calls |-> <<"loadImageData">>, originalImageData |-> null, params |-> null,
     knot_map |-> null, riemannStats |-> null, resizedKnotMap |-> null,
     processArgs |-> null, target |-> null, processedImageData |-> null]

\* The repository holds two versions of the application.  The second copy of
\* the component imports knotMapToVisualDataURL, which only the first
\* definitions of the helpers export.
Builds ==
    {[component |-> "first", helpers |-> "second", geminiService |-> "geminiService.ts"],
     [component |-> "second", helpers |-> "first", geminiService |-> "part_001"]}

InitApp ==
    /\ IdleSim
    /\ IdleHost
    /\ IdleStats
    /\ IdleResize
    /\ IdleImg
    /\ IdleCall
    /\ \E build \in Builds :
           /\ component = build.component
           /\ helpers = build.helpers
           /\ geminiService = build.geminiService
    /\ apiKey \in BOOLEAN
    /\ geminiPrompt = "photo of a surreal, vibrant nebula"
    /\ inputImageSrc = null
    /\ inputImageDimensions = null
    /\ transformedImageSrc = null
    /\ simulationStats = null
    /\ processingTime = ""
    /\ isLoading = FALSE
    /\ errorMsg = ""
    /\ resolution = RESOLUTION_OPTIONS[1].label
    /\ handler = NoHandler
    /\ transforms = 0

buildVars == <<component, helpers, geminiService, apiKey>>
modelVars == <<simVars, hostVars, statVars, resizeVars, imgVars, callVars>>

\* the user edits the prompt
SetGeminiPrompt ==
    /\ ~isLoading
    /\ geminiPrompt' \in {"", "photo of a surreal, vibrant nebula"} \ {geminiPrompt}
    /\ UNCHANGED <<buildVars, inputImageSrc, inputImageDimensions, transformedImageSrc,
                   simulationStats, processingTime, isLoading, errorMsg, resolution,
                   handler, transforms, modelVars>>

\* the user selects another output resolution
SetResolution ==
    /\ ~isLoading
    /\ \E i \in 1..Len(RESOLUTION_OPTIONS) :
           /\ RESOLUTION_OPTIONS[i].label # resolution
           /\ resolution' = RESOLUTION_OPTIONS[i].label
    /\ UNCHANGED <<buildVars, geminiPrompt, inputImageSrc, inputImageDimensions,
                   transformedImageSrc, simulationStats, processingTime, isLoading,
                   errorMsg, handler, transforms, modelVars>>

\* clearInputImage; its button is rendered while inputImageSrc is set
ClearInputImage ==
    /\ ~isLoading
    /\ inputImageSrc # null
    /\ inputImageSrc' = null
    /\ transformedImageSrc' = null
    /\ inputImageDimensions' = null
    /\ simulationStats' = null
    /\ processingTime' = ""
    /\ errorMsg' = ""
    /\ UNCHANGED <<buildVars, geminiPrompt, isLoading, resolution, handler, transforms,
                   modelVars>>

\* what handleImageUpload and handleGeminiGenerate of the second copy reset
\* before their try block
ResetResults ==
    IF component = "second"
    THEN transformedImageSrc' = null /\ simulationStats' = null
    ELSE UNCHANGED <<transformedImageSrc, simulationStats>>

\* handleImageUpload for a selected file, up to reader.readAsDataURL(file)
HandleImageUpload ==
    /\ ~isLoading
    /\ \E file \in Files :
           handler' = [name |-> "handleImageUpload", pc |-> "readAsDataURL",
                       file |-> file, imageSrc |-> null]
    /\ isLoading' = TRUE
    /\ errorMsg' = ""
    /\ ResetResults
    /\ UNCHANGED <<buildVars, geminiPrompt, inputImageSrc, inputImageDimensions,
                   processingTime, resolution, transforms, modelVars>>

\* reader.onload, up to img.src = imgSrc; a read that fails fires the error
\* event of the reader, for which no copy registers a handler
ReaderOnload ==
    /\ handler.name = "handleImageUpload" /\ handler.pc = "readAsDataURL"
    /\ handler.file.reads
    /\ inputImageSrc' = FileSrc(handler.file)
    /\ handler' = [handler EXCEPT !.pc = "img.src", !.imageSrc = FileSrc(handler.file)]
    /\ UNCHANGED <<buildVars, geminiPrompt, inputImageDimensions, transformedImageSrc,
                   simulationStats, processingTime, isLoading, errorMsg, resolution,
                   transforms, modelVars>>

\* img.onload of handleImageUpload and of handleGeminiGenerate
ImageOnload ==
    /\ handler.name \in {"handleImageUpload", "handleGeminiGenerate"}
    /\ handler.pc = "img.src"
    /\ handler.imageSrc.decodes
    /\ inputImageDimensions' = [width |-> handler.imageSrc.width,
                                height |-> handler.imageSrc.height]
    /\ isLoading' = FALSE
    /\ handler' = [handler EXCEPT !.pc = "done"]
    /\ UNCHANGED <<buildVars, geminiPrompt, inputImageSrc, transformedImageSrc,
                   simulationStats, processingTime, errorMsg, resolution, transforms,
                   modelVars>>

\* img.onerror, which only the second copy registers
ImageOnerror ==
    /\ handler.name \in {"handleImageUpload", "handleGeminiGenerate"}
    /\ handler.pc = "img.src"
    /\ ~handler.imageSrc.decodes
    /\ component = "second"
    /\ errorMsg' = "Could not load image metadata."
    /\ isLoading' = FALSE
    /\ handler' = [handler EXCEPT !.pc = "done"]
    /\ UNCHANGED <<buildVars, geminiPrompt, inputImageSrc, inputImageDimensions,
                   transformedImageSrc, simulationStats, processingTime, resolution,
                   transforms, modelVars>>

\* handleGeminiGenerate up to its await: generateImageWithGemini has thrown
\* for a missing key or has sent its request
HandleGeminiGenerate ==
    /\ ~isLoading
    /\ IF geminiPrompt = ""
       THEN /\ errorMsg' = "Please enter a prompt for Gemini image generation."
            /\ UNCHANGED <<isLoading, handler, transformedImageSrc, simulationStats>>
       ELSE /\ isLoading' = TRUE
            /\ errorMsg' = ""
            /\ ResetResults
            /\ handler' = [name |-> "handleGeminiGenerate", pc |-> "generateImageWithGemini",
                           requests |-> IF apiKey THEN 1 ELSE 0,
                           generated |-> null, imageSrc |-> null]
    /\ UNCHANGED <<buildVars, geminiPrompt, inputImageSrc, inputImageDimensions,
                   processingTime, resolution, transforms, modelVars>>

\* the promise of generateImageWithGemini settles and handleGeminiGenerate
\* runs on, up to img.src = generatedImageBase64 or to its end
GeminiSettles ==
    /\ handler.name = "handleGeminiGenerate" /\ handler.pc = "generateImageWithGemini"
    /\ \E response \in Responses :
           LET generated == generateImageWithGemini(geminiService, apiKey, response)
           IN  IF generated.pc = "returned" /\ generated.value # null
               THEN /\ inputImageSrc' = GeneratedSrc(generated.value)
                    /\ handler' = [handler EXCEPT !.pc = "img.src",
                                                  !.generated = generated,
                                                  !.imageSrc = GeneratedSrc(generated.value)]
                    /\ UNCHANGED <<errorMsg, isLoading>>
               ELSE /\ errorMsg' = IF generated.pc = "returned"
                                   THEN "Gemini did not return an image."
                                   ELSE "Gemini image generation failed"
                    /\ isLoading' = FALSE
                    /\ handler' = [handler EXCEPT !.pc = "done", !.generated = generated]
                    /\ UNCHANGED inputImageSrc
    /\ UNCHANGED <<buildVars, geminiPrompt, inputImageDimensions, transformedImageSrc,
                   simulationStats, processingTime, resolution, transforms, modelVars>>

\* handleTransform up to await loadImageData(inputImageSrc)
HandleTransform ==
    /\ ~isLoading
    /\ IF Guard
       THEN /\ errorMsg' = "Please upload or generate an input image first."
            /\ UNCHANGED <<isLoading, handler, transforms>>
       ELSE /\ transforms < MaxTransforms
            /\ isLoading' = TRUE
            /\ errorMsg' = ""
            /\ handler' = TransformHandler(transforms + 1)
            /\ transforms' = transforms + 1
    /\ UNCHANGED <<buildVars, geminiPrompt, inputImageSrc, inputImageDimensions,
                   transformedImageSrc, simulationStats, processingTime, resolution,
                   modelVars>>

\* the catch and finally blocks of handleTransform, h being the handler when
\* the error was thrown
TransformFails(h) ==
    /\ errorMsg' = "Transformation failed"
    /\ processingTime' = "Processing Time"
    /\ isLoading' = FALSE
    /\ handler' = [h EXCEPT !.pc = "done", !.error = TRUE]

\* imageDataToDataURL, setTransformedImageSrc and the finally block
TransformFinishes(h, imageData, host) ==
    LET url == imageDataToDataURL(imageData, host)
        called == [h EXCEPT !.processedImageData = imageData,
                            !.calls = @ \o <<"imageDataToDataURL">>]
    IN  IF url.pc = "Error"
        THEN TransformFails(called) /\ UNCHANGED transformedImageSrc
        ELSE /\ transformedImageSrc' = [dataURL |-> url.value.dataURL, run |-> h.run]
             /\ processingTime' = "Processing Time"
             /\ isLoading' = FALSE
             /\ handler' = [called EXCEPT !.pc = "done"]
             /\ UNCHANGED errorMsg

\* handleTransform from the simulator to the call of applyPostProcessing, on
\* the loaded image; harmony is the score the analysis of the run returns,
\* host what the getContext calls of knotMapToVisualDataURL (second copy) and
\* of resizeKnotMap return.  The value tells how far the handler got, what
\* it showed as statistics and whether it threw.
SimulateAndProcess(h, imageData, harmony, host) ==
    LET field_w == FieldSize(component, imageData.width)
        field_h == FieldSize(component, imageData.height)
        constructed == [h EXCEPT !.originalImageData = imageData,
                                 !.params = [field_w |-> field_w, field_h |-> field_h],
                                 !.calls = @ \o <<"SubQGSimulator">>]
        knotMapOfRun == [run |-> h.run, rows |-> field_h \div SCALE, cols |-> field_w \div SCALE]
        statsOfRun == [run |-> h.run, harmony_score |-> harmony]
        analysed == [constructed EXCEPT
                        !.knot_map = knotMapOfRun,
                        !.riemannStats = statsOfRun,
                        !.calls = @ \o <<"runSimulation", "analyzeRiemannProjection">>]
        visualised == IF component = "second"
                      THEN [analysed EXCEPT !.calls = @ \o <<"knotMapToVisualDataURL">>]
                      ELSE analysed
        km == KnotMapTarget(imageData)
        asked == [visualised EXCEPT
                     !.calls = @ \o <<"extractMainColors", "createCategoryActivations",
                                      "resizeKnotMap">>]
        resized == resizeKnotMapShape(knotMapOfRun, km.targetWidth, km.targetHeight)
        processed == [asked EXCEPT
                         !.resizedKnotMap = resized,
                         !.processArgs = [originalImageData |-> imageData,
                                          resizedKnotMap |-> resized,
                                          harmonyScore |-> statsOfRun],
                         !.target = TargetSize(h.resolution, imageData),
                         !.processedImageData = InputImage(imageData.width, imageData.height),
                         !.calls = @ \o <<"processImageWithSubQG", "applyPostProcessing">>,
                         !.pc = "applyPostProcessing"]
    IN  IF ~FieldAllocOk(field_h, field_w)
        THEN [handler |-> constructed, stats |-> simulationStats, threw |-> TRUE]
        ELSE IF component = "second" /\ ~host[1]
        THEN [handler |-> visualised, stats |-> statsOfRun, threw |-> TRUE]
        ELSE IF ~host[2] \/ ~host[3]
        THEN [handler |-> asked, stats |-> statsOfRun, threw |-> TRUE]
        ELSE [handler |-> processed, stats |-> statsOfRun, threw |-> FALSE]

\* the promise of loadImageData settles and handleTransform runs on, up to
\* await applyPostProcessing(...) or to the end of its finally block
TransformLoaded ==
    /\ handler.name = "handleTransform" /\ handler.pc = "loadImageData"
    /\ \E host \in HostContexts, more \in HostContexts, harmony \in AppHarmonies :
           LET loaded == loadImageData(handler.imageSrc, host)
               ran == SimulateAndProcess(handler, loaded.value, harmony, more)
           IN  IF loaded.pc = "rejected"
               THEN TransformFails(handler) /\ UNCHANGED simulationStats
               ELSE /\ simulationStats' = ran.stats
                    /\ IF ran.threw THEN TransformFails(ran.handler)
                       ELSE /\ handler' = ran.handler
                            /\ UNCHANGED <<errorMsg, processingTime, isLoading>>
    /\ UNCHANGED <<buildVars, geminiPrompt, inputImageSrc, inputImageDimensions,
                   transformedImageSrc, resolution, transforms, modelVars>>

\* the promise of applyPostProcessing resolves and handleTransform runs on,
\* up to await resizeImageData(...) or to the end of its finally block
TransformPostProcessed ==
    /\ handler.name = "handleTransform" /\ handler.pc = "applyPostProcessing"
    /\ \E host \in HostContexts, more \in HostContexts :
           LET post == applyPostProcessing(helpers, handler.processedImageData,
                                           handler.riemannStats.harmony_score,
                                           handler.target.width, handler.target.height,
                                           host)
           IN  IF NeedsResize(post.value, handler.target)
               THEN /\ handler' = [handler EXCEPT !.processedImageData = post.value,
                                                  !.calls = @ \o <<"resizeImageData">>,
                                                  !.pc = "resizeImageData"]
                    /\ UNCHANGED <<transformedImageSrc, errorMsg, processingTime, isLoading>>
               ELSE TransformFinishes(handler, post.value, more)
    /\ UNCHANGED <<buildVars, geminiPrompt, inputImageSrc, inputImageDimensions,
                   simulationStats, resolution, transforms, modelVars>>

\* the promise of resizeImageData settles and handleTransform runs to the
\* end of its finally block
TransformResized ==
    /\ handler.name = "handleTransform" /\ handler.pc = "resizeImageData"
    /\ \E host \in HostContexts, more \in HostContexts :
           LET resized == resizeImageData(helpers, handler.processedImageData,
                                          handler.target.width, handler.target.height, host)
           IN  IF resized.pc = "rejected"
               THEN TransformFails(handler) /\ UNCHANGED transformedImageSrc
               ELSE TransformFinishes(handler, resized.value, more)
    /\ UNCHANGED <<buildVars, geminiPrompt, inputImageSrc, inputImageDimensions,
                   simulationStats, resolution, transforms, modelVars>>

\* what the user does
UserActs ==
    \/ SetGeminiPrompt \/ SetResolution \/ ClearInputImage
    \/ HandleImageUpload \/ HandleGeminiGenerate \/ HandleTransform

\* what the browser and the image service do to a handler that awaits them
HostActs ==
    \/ ReaderOnload \/ ImageOnload \/ ImageOnerror \/ GeminiSettles
    \/ TransformLoaded \/ TransformPostProcessed \/ TransformResized

NextApp == UserActs \/ HostActs

SpecApp == InitApp /\ [][NextApp]_vars

\* every event a handler awaits is delivered in the end
SpecAppFair == SpecApp /\ WF_vars(HostActs)

-----------------------------------------------------------------------------
(* Properties of the App component *)

\* the positions of a call in the calls a handler has made
Positions(calls, op) == {i \in 1..Len(calls) : calls[i] = op}

\* C22 as claimed: for every input image width and height >= 1 the field_w
\* and field_h that handleTransform passes to the SubQGSimulator constructor
\* are integers in [32, 128], so constructing the simulator grids never fails
C22_FieldSizeIntegerInRange ==
    (handler.name = "handleTransform" /\ handler.params # null) =>
        /\ \A size \in {handler.params.field_w, handler.params.field_h} :
               /\ size % SCALE = 0
               /\ size >= 32 * SCALE
               /\ size <= 128 * SCALE
        /\ handler.error => "runSimulation" \in {handler.calls[i] : i \in 1..Len(handler.calls)}

\* the steps of handleTransform the claim orders
OrderedSteps ==
    <<"runSimulation", "analyzeRiemannProjection", "resizeKnotMap",
      "processImageWithSubQG", "applyPostProcessing">>

\* C23: within one handleTransform the steps occur in the order
\* runSimulation, analyzeRiemannProjection, resizeKnotMap,
\* processImageWithSubQG, applyPostProcessing, each once at most and none
\* without the one before it; the knot map and the harmony score given to
\* processImageWithSubQG are those of that same run; the resized knot map has
\* exactly image-height rows and image-width columns, so every index
\* [r_idx][c_idx] with r_idx < height and c_idx < width is in range
C23_OrderAndSameRun ==
    handler.name = "handleTransform" =>
        /\ \A k \in 1..Len(OrderedSteps) :
               /\ Cardinality(Positions(handler.calls, OrderedSteps[k])) <= 1
               /\ (k > 1 /\ Positions(handler.calls, OrderedSteps[k]) # {}) =>
                      \E i \in Positions(handler.calls, OrderedSteps[k - 1]) :
                          \A j \in Positions(handler.calls, OrderedSteps[k]) : i < j
        /\ handler.processArgs # null =>
               /\ handler.run = transforms
               /\ handler.knot_map.run = handler.run
               /\ handler.riemannStats.run = handler.run
               /\ handler.processArgs.resizedKnotMap.run = handler.run
               /\ handler.processArgs.harmonyScore = handler.riemannStats
               /\ handler.processArgs.resizedKnotMap.rows
                      = handler.processArgs.originalImageData.height
               /\ handler.processArgs.resizedKnotMap.cols
                      = handler.processArgs.originalImageData.width
               /\ handler.processArgs.originalImageData.width = handler.imageSrc.width
               /\ handler.processArgs.originalImageData.height = handler.imageSrc.height

\* the second transform of a session has gone through all five steps on an
\* image that is not square
C23_Witness ==
    /\ handler.name = "handleTransform" /\ handler.pc = "done" /\ ~handler.error
    /\ handler.run = MaxTransforms
    /\ handler.imageSrc.width # handler.imageSrc.height
    /\ Positions(handler.calls, "applyPostProcessing") # {}
    /\ handler.processArgs.resizedKnotMap.run = MaxTransforms
    /\ handler.processArgs.resizedKnotMap.rows = handler.imageSrc.height

\* C26: whenever handleTransform completes without error, the image stored
\* as the transformed result has exactly the target width and height: those
\* of the selected resolution option when it defines both, otherwise those of
\* the input image; on every path through applyPostProcessing, its fallbacks
\* included
C26_StoredImageHasTargetSize ==
    [][(handler.pc # "done" /\ handler'.pc = "done"
        /\ handler'.name = "handleTransform" /\ ~handler'.error) =>
           /\ transformedImageSrc' # null
           /\ transformedImageSrc'.run = handler'.run
           /\ \E i \in 1..Len(RESOLUTION_OPTIONS) :
                  /\ RESOLUTION_OPTIONS[i].label = resolution
                  /\ IF RESOLUTION_OPTIONS[i].width # 0 /\ RESOLUTION_OPTIONS[i].height # 0
                     THEN /\ transformedImageSrc'.dataURL.width = RESOLUTION_OPTIONS[i].width
                          /\ transformedImageSrc'.dataURL.height = RESOLUTION_OPTIONS[i].height
                     ELSE /\ transformedImageSrc'.dataURL.width = inputImageSrc.width
                          /\ transformedImageSrc'.dataURL.height = inputImageSrc.height]_vars

\* a transform has completed without error although applyPostProcessing fell
\* back to the image it was given: the resize that followed gave the stored
\* image the size of the selected option
C26_Witness ==
    /\ handler.name = "handleTransform" /\ handler.pc = "done" /\ ~handler.error
    /\ Positions(handler.calls, "resizeImageData") # {}
    /\ transformedImageSrc # null
    /\ transformedImageSrc.run = handler.run
    /\ transformedImageSrc.dataURL.width = 512
    /\ inputImageSrc.width # 512

\* C27 as claimed: in every reachable UI state the displayed statistics (and
\* knot-map preview) and the displayed transformed image come from the same
\* handleTransform run, after transforms that fail part-way too
C27_StatsAndImageOfSameRun ==
    (simulationStats # null /\ transformedImageSrc # null) =>
        simulationStats.run = transformedImageSrc.run

\* C28 as claimed: every operation that sets isLoading to true eventually
\* sets it back to false
C28_LoadingEventuallyEnds == isLoading ~> ~isLoading

\* C29, for any step: while no input image or no input dimensions are set no
\* transform starts and no simulation runs
C29_NoTransformStarts ==
    (~isLoading /\ (inputImageSrc = null \/ inputImageDimensions = null)) =>
        /\ transforms' = transforms
        /\ handler'.name = "handleTransform" => handler' = handler

\* C29, for the call: handleTransform invoked in such a state only sets the
\* error message
C29_OnlyErrorMessage ==
    (~isLoading /\ (inputImageSrc = null \/ inputImageDimensions = null)
     /\ HandleTransform) =>
        /\ errorMsg' = "Please upload or generate an input image first."
        /\ isLoading' = isLoading
        /\ transformedImageSrc' = transformedImageSrc
        /\ simulationStats' = simulationStats
        /\ processingTime' = processingTime
        /\ handler' = handler
        /\ transforms' = transforms

\* C29: handleTransform invoked while no input image or no input dimensions
\* are set only sets the error message: it does not set isLoading, does not
\* run the simulation, and leaves the transformed image, statistics and
\* processing time unchanged
C29_GuardOnlySetsError == [][C29_NoTransformStarts /\ C29_OnlyErrorMessage]_vars

\* handleTransform was invoked with an image source whose dimensions never
\* arrived, and has left its message
C29_Witness ==
    /\ inputImageSrc # null /\ inputImageDimensions = null
    /\ ~isLoading
    /\ errorMsg = "Please upload or generate an input image first."
    /\ transforms = 0

\* C30 as claimed: generateImageWithGemini issues at most one request per
\* call and none when the API key is missing, in which case it throws; every
\* call ends by returning a string that starts with 'data:image/png;base64,'
\* or by throwing an Error, never by returning null or a URL built from
\* missing image bytes
C30_OneRequestUrlOrError ==
    (handler.name = "handleGeminiGenerate" /\ handler.generated # null) =>
        /\ handler.generated.requests = handler.requests
        /\ handler.requests <= 1
        /\ ~apiKey => (handler.requests = 0 /\ handler.generated.pc = "Error")
        /\ handler.generated.pc \in {"returned", "Error"}
        /\ handler.generated.pc = "returned" =>
               /\ handler.generated.value # null
               /\ handler.generated.value.prefix = "data:image/png;base64,"
               /\ handler.generated.value.imageBytes # "undefined"

====
